---------------------------- MODULE Spec2Model ----------------------------
(***************************************************************************)
(* ZATCA Phase-1 QR tag: TLV serializer, Base64 framing, field validators, *)
(* decoder and verifier of backend/zatca_qr.py.                            *)
(*                                                                         *)
(* Text (a Python str) is a sequence of Unicode scalar values (code        *)
(* points); bytes are sequences of 0..255.  The library conversions the    *)
(* code calls (str.encode / bytes.decode, base64.b64encode / b64decode,    *)
(* str.strip, re.sub, float, datetime.fromisoformat) are modelled by what  *)
(* they compute on those sequences.                                        *)
(***************************************************************************)
EXTENDS Integers, Sequences, FiniteSets, TLC

\* ------------------------------------------------------------------------
\* Character classes
\* ------------------------------------------------------------------------

\* str.isspace(): the characters str.strip() trims and the regex class \s
\* matches on a str pattern.
IsSpace(c) ==
    \/ c \in 9..13
    \/ c \in 28..32
    \/ c \in {133, 160, 5760, 8232, 8233, 8239, 8287, 12288}
    \/ c \in 8192..8202

IsAsciiDigit(c) == c \in 48..57

\* Unicode decimal digits (category Nd) of the scripts the inputs draw on:
\* ASCII, Arabic-Indic, Extended Arabic-Indic, fullwidth.  The regex class
\* \d and float() accept these.
IsDecimal(c) ==
    \/ c \in 48..57
    \/ c \in 1632..1641
    \/ c \in 1776..1785
    \/ c \in 65296..65305

\* str.isdigit() per character: decimal digits and the digit-valued
\* superscripts and subscripts.
IsDigitChar(c) ==
    \/ IsDecimal(c)
    \/ c \in {178, 179, 185, 8304}
    \/ c \in 8308..8313
    \/ c \in 8320..8329

\* The numeric value of a decimal digit.
DigitValue(c) ==
    IF c \in 48..57 THEN c - 48
    ELSE IF c \in 1632..1641 THEN c - 1632
    ELSE IF c \in 1776..1785 THEN c - 1776
    ELSE c - 65296

\* ------------------------------------------------------------------------
\* Text helpers
\* ------------------------------------------------------------------------

Rep(c, n) == [i \in 1..n |-> c]

SetMin(S) == CHOOSE x \in S : \A y \in S : x <= y
SetMax(S) == CHOOSE x \in S : \A y \in S : x >= y

\* str.strip(): drop leading and trailing whitespace.
strip(s) ==
    LET keep == {i \in 1..Len(s) : ~IsSpace(s[i])}
    IN  IF keep = {} THEN <<>> ELSE SubSeq(s, SetMin(keep), SetMax(keep))

IsSepChar(c) == IsSpace(c) \/ c = 45

\* clean_vat deleting the hyphens only.
clean_vat_hyphens_only(s) == SelectSeq(s, LAMBDA c : c # 45)

\* re.sub(r'[\s\-]', '', s): delete every whitespace and hyphen character.
clean_vat(s) == SelectSeq(s, LAMBDA c : ~IsSepChar(c))

\* ------------------------------------------------------------------------
\* UTF-8
\* ------------------------------------------------------------------------

\* The UTF-8 bytes of one code point.
utf8_char(c) ==
    IF c < 128 THEN <<c>>
    ELSE IF c < 2048 THEN <<192 + (c \div 64), 128 + (c % 64)>>
    ELSE IF c < 65536
         THEN <<224 + (c \div 4096), 128 + ((c \div 64) % 64), 128 + (c % 64)>>
    ELSE <<240 + (c \div 262144), 128 + ((c \div 4096) % 64),
           128 + ((c \div 64) % 64), 128 + (c % 64)>>

\* The UTF-8 bytes of s[lo..hi], character after character.
RECURSIVE utf8_range(_, _, _)
utf8_range(s, lo, hi) ==
    IF lo > hi THEN <<>>
    ELSE IF lo = hi THEN utf8_char(s[lo])
    ELSE LET mid == (lo + hi) \div 2
         IN  utf8_range(s, lo, mid) \o utf8_range(s, mid + 1, hi)

\* value.encode('utf-8')
utf8_encode(s) == utf8_range(s, 1, Len(s))

IsCont(b) == b \in 128..191

\* The number of bytes the lead byte b0 announces; 0 for a byte that can
\* start no character (a continuation byte, C0, C1, F5..FF).
utf8_width(b0) ==
    IF b0 < 128 THEN 1
    ELSE IF b0 \in 194..223 THEN 2
    ELSE IF b0 \in 224..239 THEN 3
    ELSE IF b0 \in 240..244 THEN 4
    ELSE 0

\* The character starting at byte i is well formed: its continuation bytes
\* are there, and it is no overlong form, no surrogate, nothing above
\* U+10FFFF.
utf8_char_ok(b, i) ==
    LET b0 == b[i]
        w  == utf8_width(b0)
    IN  /\ w # 0
        /\ i + w - 1 <= Len(b)
        /\ \A j \in (i + 1)..(i + w - 1) : IsCont(b[j])
        /\ (i + w <= Len(b) => ~IsCont(b[i + w]))
        /\ (b0 = 224 => b[i + 1] >= 160)
        /\ (b0 = 237 => b[i + 1] <= 159)
        /\ (b0 = 240 => b[i + 1] >= 144)
        /\ (b0 = 244 => b[i + 1] <= 143)

\* utf8_code_point shifting the lead byte of a 2-byte character by 5 bits
\* instead of 6.
utf8_code_point_short_shift(b, i) ==
    LET b0 == b[i]
        c(j) == b[i + j] - 128
    IN  IF b0 < 128 THEN b0
        ELSE IF b0 < 224 THEN (b0 - 192) * 32 + c(1)
        ELSE IF b0 < 240 THEN (b0 - 224) * 4096 + c(1) * 64 + c(2)
        ELSE (b0 - 240) * 262144 + c(1) * 4096 + c(2) * 64 + c(3)

\* The code point of the well-formed character starting at byte i.
utf8_code_point(b, i) ==
    LET b0 == b[i]
        c(j) == b[i + j] - 128
    IN  IF b0 < 128 THEN b0
        ELSE IF b0 < 224 THEN (b0 - 192) * 64 + c(1)
        ELSE IF b0 < 240 THEN (b0 - 224) * 4096 + c(1) * 64 + c(2)
        ELSE (b0 - 240) * 262144 + c(1) * 4096 + c(2) * 64 + c(3)

\* bytes.decode('utf-8') (strict): the code points, or failure on a byte
\* sequence that is not well-formed UTF-8.
utf8_decode(b) ==
    LET starts == SelectSeq([i \in 1..Len(b) |-> i], LAMBDA i : ~IsCont(b[i]))
    IN  IF /\ (b # <<>> => ~IsCont(b[1]))
           /\ \A k \in 1..Len(starts) : utf8_char_ok(b, starts[k])
        THEN [ok |-> TRUE,
              value |-> [k \in 1..Len(starts) |-> utf8_code_point(b, starts[k])]]
        ELSE [ok |-> FALSE, value |-> <<>>]

\* ------------------------------------------------------------------------
\* TLV field builder
\* ------------------------------------------------------------------------

\* The largest value length the one-byte length slot holds.
MaxFieldLen == 255

\* ExceedsMax off by one: a value of exactly 255 bytes is refused.
ExceedsMax_inclusive(value_bytes) == Len(value_bytes) >= MaxFieldLen

\* The length test of build_tlv_field: True when the value does not fit.
ExceedsMax(value_bytes) == Len(value_bytes) > MaxFieldLen

\* tlv_layout with a NUL terminator after the value.
tlv_layout_terminated(tag, value_bytes) ==
    <<tag>> \o <<Len(value_bytes)>> \o value_bytes \o <<0>>

\* The field's bytes: tag byte, length byte, value bytes.
tlv_layout(tag, value_bytes) == <<tag>> \o <<Len(value_bytes)>> \o value_bytes

\* build_tlv_field without the length check: the length byte wraps.
build_tlv_field_wrap(tag, value) ==
    [ok |-> TRUE,
     value |-> <<tag>> \o <<Len(utf8_encode(value)) % 256>>
               \o utf8_encode(value)]

\* build_tlv_field(tag, value): the TLV bytes, or the ValueError raised when
\* the value's UTF-8 length exceeds 255.
build_tlv_field(tag, value) ==
    LET value_bytes == utf8_encode(value)
    IN  IF ExceedsMax(value_bytes)
        THEN [ok |-> FALSE, error |-> "FieldTooLarge", tag |-> tag,
              length |-> Len(value_bytes)]
        ELSE [ok |-> TRUE, value |-> tlv_layout(tag, value_bytes)]


\* ------------------------------------------------------------------------
\* Base64 framing
\* ------------------------------------------------------------------------

PadChar == 61

\* The character of a 6-bit value in the standard alphabet.
b64_char(v) ==
    IF v < 26 THEN 65 + v
    ELSE IF v < 52 THEN 97 + (v - 26)
    ELSE IF v < 62 THEN 48 + (v - 52)
    ELSE IF v = 62 THEN 43
    ELSE 47

IsB64Char(c) == c \in 65..90 \/ c \in 97..122 \/ c \in 48..57 \/ c \in {43, 47}

\* The 6-bit value of an alphabet character.
b64_value(c) ==
    IF c \in 65..90 THEN c - 65
    ELSE IF c \in 97..122 THEN c - 97 + 26
    ELSE IF c \in 48..57 THEN c - 48 + 52
    ELSE IF c = 43 THEN 62
    ELSE 63

\* base64.b64encode(data).decode('utf-8'): every 3 bytes give 4 characters,
\* a last group of 1 or 2 bytes is padded with '='.
b64encode(data) ==
    LET n == Len(data)
        byte(k) == IF k <= n THEN data[k] ELSE 0
    IN  [j \in 1..(4 * ((n + 2) \div 3)) |->
            LET q  == (j - 1) \div 4
                p  == (j - 1) % 4
                b0 == byte(3 * q + 1)
                b1 == byte(3 * q + 2)
                b2 == byte(3 * q + 3)
            IN  IF p = 0 THEN b64_char(b0 \div 4)
                ELSE IF p = 1 THEN b64_char((b0 % 4) * 16 + (b1 \div 16))
                ELSE IF p = 2
                     THEN IF 3 * q + 2 > n THEN PadChar
                          ELSE b64_char((b1 % 16) * 4 + (b2 \div 64))
                ELSE IF 3 * q + 3 > n THEN PadChar ELSE b64_char(b2 % 64)]

\* base64.b64decode(s) with its default validate=False (binascii.a2b_base64,
\* non-strict): a non-ASCII character is an error; characters outside the
\* alphabet are discarded; a '=' met after 3 data characters of a group, or a
\* second '=' met after 2, ends the data and whatever follows is ignored;
\* otherwise the data characters must come in whole groups of 4.
b64decode(s) ==
    IF \E i \in 1..Len(s) : s[i] > 127
    THEN [ok |-> FALSE, error |-> "NonAscii", value |-> <<>>]
    ELSE
    LET v       == SelectSeq(s, LAMBDA c : IsB64Char(c) \/ c = PadChar)
        pads    == {i \in 1..Len(v) : v[i] = PadChar}
        quad(i) == Cardinality({j \in 1..(i - 1) : v[j] # PadChar}) % 4
        stops   == {i \in pads :
                       \/ quad(i) = 3
                       \/ quad(i) = 2 /\ i > 1 /\ v[i - 1] = PadChar}
        upto    == IF stops = {} THEN Len(v) ELSE SetMin(stops) - 1
        d       == SelectSeq(SubSeq(v, 1, upto), IsB64Char)
        rem     == Len(d) % 4
        nout    == 3 * (Len(d) \div 4) + (IF rem = 0 THEN 0 ELSE rem - 1)
        six(k)  == b64_value(d[k])
    IN  IF stops = {} /\ rem # 0
        THEN [ok |-> FALSE,
              error |-> IF rem = 1 THEN "BadDataLength" ELSE "IncorrectPadding",
              value |-> <<>>]
        ELSE [ok |-> TRUE, error |-> "",
              value |-> [j \in 1..nout |->
                 LET q == (j - 1) \div 3
                     p == (j - 1) % 3
                 IN  IF p = 0
                     THEN six(4 * q + 1) * 4 + (six(4 * q + 2) \div 16)
                     ELSE IF p = 1
                     THEN (six(4 * q + 2) % 16) * 16 + (six(4 * q + 3) \div 4)
                     ELSE (six(4 * q + 3) % 4) * 64 + six(4 * q + 4)]]

\* ------------------------------------------------------------------------
\* Decoder
\* ------------------------------------------------------------------------

\* A dict is the sequence of its (tag, value) items in insertion order,
\* each tag once.
EmptyDict == <<>>

dict_keys(d) == [i \in 1..Len(d) |-> d[i].tag]

dict_has(d, tag) == \E i \in 1..Len(d) : d[i].tag = tag

\* dict_set keeping the value a tag already has.
dict_set_keep_first(result, tag, value) ==
    IF dict_has(result, tag) THEN result
    ELSE Append(result, [tag |-> tag, value |-> value])

\* result[tag] = value: a new tag is appended, a tag already present keeps
\* its place and takes the new value.
dict_set(result, tag, value) ==
    IF dict_has(result, tag)
    THEN [i \in 1..Len(result) |->
            IF result[i].tag = tag THEN [tag |-> tag, value |-> value]
            ELSE result[i]]
    ELSE Append(result, [tag |-> tag, value |-> value])

\* d.get(tag): <<value>>, or << >> for None.
dict_get(d, tag) ==
    IF dict_has(d, tag)
    THEN <<d[CHOOSE i \in 1..Len(d) : d[i].tag = tag].value>>
    ELSE <<>>

\* parse_tlv without the two length tests: a slice past the end of the
\* data is cut short, as Python cuts it.
RECURSIVE parse_tlv_unchecked(_, _, _)
parse_tlv_unchecked(tlv_data, offset, result) ==
    IF ~(offset + 1 < Len(tlv_data))
    THEN [ok |-> TRUE, value |-> result, offset |-> offset]
    ELSE LET tag   == tlv_data[offset + 1]
             stop  == IF offset + 2 + tlv_data[offset + 2] > Len(tlv_data)
                      THEN Len(tlv_data)
                      ELSE offset + 2 + tlv_data[offset + 2]
             value == utf8_decode(SubSeq(tlv_data, offset + 3, stop))
         IN  IF ~value.ok
             THEN [ok |-> FALSE, error |-> "InvalidUtf8"]
             ELSE parse_tlv_unchecked(tlv_data, stop,
                                      dict_set(result, tag, value.value))

\* The while loop of decode_zatca_qr from byte offset `offset` (0-based) with
\* the dict built so far: the final dict, or the error raised.
RECURSIVE parse_tlv(_, _, _)
parse_tlv(tlv_data, offset, result) ==
    IF ~(offset < Len(tlv_data))
    THEN [ok |-> TRUE, value |-> result, offset |-> offset]
    ELSE IF offset + 2 > Len(tlv_data)
    THEN [ok |-> FALSE, error |-> "IncompleteField"]
    ELSE LET tag    == tlv_data[offset + 1]
             length == tlv_data[offset + 2]
             start  == offset + 2
         IN  IF start + length > Len(tlv_data)
             THEN [ok |-> FALSE, error |-> "IncompleteValue"]
             ELSE LET value == utf8_decode(SubSeq(tlv_data, start + 1,
                                                  start + length))
                  IN  IF ~value.ok
                      THEN [ok |-> FALSE, error |-> "InvalidUtf8"]
                      ELSE parse_tlv(tlv_data, start + length,
                                     dict_set(result, tag, value.value))

\* decode_zatca_qr(base64_string): the tag -> value dict, or the ValueError
\* ("Failed to decode QR code: <cause>") every exception is turned into.
decode_zatca_qr(base64_string) ==
    LET raw == b64decode(base64_string)
    IN  IF ~raw.ok
        THEN [ok |-> FALSE, error |-> "DecodeFailed", cause |-> raw.error]
        ELSE LET parsed == parse_tlv(raw.value, 0, EmptyDict)
             IN  IF parsed.ok
                 THEN [ok |-> TRUE, value |-> parsed.value]
                 ELSE [ok |-> FALSE, error |-> "DecodeFailed",
                       cause |-> parsed.error]


\* ------------------------------------------------------------------------
\* Field validators
\* ------------------------------------------------------------------------

\* A validator is given a text or None.  None is written as a sequence no
\* text equals.
None == <<-1>>

\* bool(x) of a text or None: `not x` is its negation.
Truthy(x) == x # None /\ x # <<>>

\* How a call ends: it returns a value or an exception leaves it.
Returned(v) == [raised |-> "", value |-> v]
Raised(e) == [raised |-> e, value |-> FALSE]

\* except_return_false with no except clause: the exception goes on.
except_nothing(r, caught) == r

\* A try block ending as r under `except <caught>: return False`.
except_return_false(r, caught) ==
    IF r.raised \in caught THEN Returned(FALSE) ELSE r

\* str.isdigit(): non-empty and every character a digit.
isdigit(s) == s # <<>> /\ \A i \in 1..Len(s) : IsDigitChar(s[i])

\* The length a cleaned VAT registration number must have.
VatDigits == 15

\* validate_vat_number(vat_number) on a text that is not empty.
vat_number_test(vat_number) ==
    isdigit(clean_vat(vat_number)) /\ Len(clean_vat(vat_number)) = VatDigits

\* The call validate_vat_number(vat_number): no try block; re.sub raises
\* TypeError on None, which the first test keeps from it.
validate_vat_number_call(vat_number) ==
    IF ~Truthy(vat_number) THEN Returned(FALSE)
    ELSE IF vat_number = None THEN Raised("TypeError")
    ELSE Returned(vat_number_test(vat_number))

\* validate_vat_number(vat_number), the value returned
validate_vat_number(vat_number) == validate_vat_number_call(vat_number).value

\* --- float(text) ---

IsAscii(s) == \A i \in 1..Len(s) : s[i] < 128

Lower(c) == IF c \in 65..90 THEN c + 32 ELSE c

LowerText(s) == [i \in 1..Len(s) |-> Lower(s[i])]

\* Number of decimal digits a finite double can have before the point, and
\* the leading digits of the largest one (1.7976931348623158e308 still
\* rounds to it).
MaxDecimalExp == 309
MaxDoubleLead == <<1, 7, 9, 7, 6, 9, 3, 1, 3, 4, 8, 6, 2, 3, 1, 5, 8>>

\* a > b for digit sequences of equal length.
RECURSIVE LexGreater(_, _, _)
LexGreater(a, b, i) ==
    IF i > Len(a) THEN FALSE
    ELSE IF a[i] # b[i] THEN a[i] > b[i]
    ELSE LexGreater(a, b, i + 1)

\* The value of a short run of decimal digits; a run of more than 5
\* significant digits is beyond every exponent a double has and counts as
\* 99999.
RECURSIVE DigitsValue(_, _, _)
DigitsValue(d, i, acc) ==
    IF i > Len(d) THEN acc
    ELSE IF acc > 9999 THEN 99999
    ELSE DigitsValue(d, i + 1, acc * 10 + DigitValue(d[i]))

\* float(text) of CPython: surrounding whitespace is dropped (in a str with
\* a non-ASCII character every Unicode space counts, in an ASCII one only
\* \t\n\v\f\r and the space), an optional sign, then inf / infinity / nan in
\* any case, or a decimal number: digits with an optional point, an optional
\* exponent, underscores only between two digits.  The result is the kind
\* of double: "finite", "inf" (overflow included), "nan", with its sign.
\* The steps follow, last first.

FloatError == [ok |-> FALSE, kind |-> "ValueError", neg |-> FALSE]

FloatOf(kind, neg) == [ok |-> TRUE, kind |-> kind, neg |-> neg]

\* The value is 0.d1d2... * 10^mag, d1 = digits[first] its first non-zero
\* digit: it overflows to inf beyond the largest double.
float_overflows(digits, first, mag) ==
    \/ mag > MaxDecimalExp
    \/ /\ mag = MaxDecimalExp
       /\ LexGreater([i \in 1..Len(MaxDoubleLead) |->
                        IF first + i - 1 <= Len(digits)
                        THEN DigitValue(digits[first + i - 1]) ELSE 0],
                     MaxDoubleLead, 1)

\* digits: the mantissa's digits, intLen of them before the point.
float_kind(digits, intLen, expVal, neg) ==
    LET nz == {i \in 1..Len(digits) : DigitValue(digits[i]) # 0}
    IN  IF nz = {} THEN FloatOf("finite", neg)
        ELSE IF float_overflows(digits, SetMin(nz),
                                intLen - SetMin(nz) + 1 + expVal)
        THEN FloatOf("inf", neg)
        ELSE FloatOf("finite", neg)

mantissa_ok(mant) ==
    /\ Cardinality({i \in 1..Len(mant) : mant[i] = 46}) <= 1
    /\ \E i \in 1..Len(mant) : IsDecimal(mant[i])
    /\ \A i \in 1..Len(mant) : IsDecimal(mant[i]) \/ mant[i] = 46

\* The digits after the 'e', sign taken off.
exponent_digits(expo) ==
    IF expo # <<>> /\ expo[1] \in {43, 45} THEN SubSeq(expo, 2, Len(expo))
    ELSE expo

exponent_ok(expo) ==
    /\ exponent_digits(expo) # <<>>
    /\ \A i \in 1..Len(exponent_digits(expo)) :
          IsDecimal(exponent_digits(expo)[i])

exponent_value(expo) ==
    IF expo = <<>> THEN 0
    ELSE IF expo[1] = 45 THEN 0 - DigitsValue(exponent_digits(expo), 1, 0)
    ELSE DigitsValue(exponent_digits(expo), 1, 0)

\* The digits before the point of the mantissa.
int_len(mant) ==
    LET points == {i \in 1..Len(mant) : mant[i] = 46}
    IN  IF points = {} THEN Len(mant) ELSE SetMin(points) - 1

\* mant e expo (hasExp), or mant alone.
float_parts(mant, expo, hasExp, neg) ==
    IF ~mantissa_ok(mant) \/ (hasExp /\ ~exponent_ok(expo)) THEN FloatError
    ELSE float_kind(SelectSeq(mant, IsDecimal), int_len(mant),
                    exponent_value(expo), neg)

\* u: the number, underscores removed.
float_number(u, neg) ==
    LET es == {i \in 1..Len(u) : u[i] \in {69, 101}}
    IN  IF es = {} THEN float_parts(u, <<>>, FALSE, neg)
        ELSE IF Cardinality(es) > 1 THEN FloatError
        ELSE float_parts(SubSeq(u, 1, SetMin(es) - 1),
                         SubSeq(u, SetMin(es) + 1, Len(u)), TRUE, neg)

underscores_ok(body) ==
    \A i \in 1..Len(body) :
        body[i] = 95 =>
            /\ i > 1 /\ i < Len(body)
            /\ IsDecimal(body[i - 1]) /\ IsDecimal(body[i + 1])

\* body: the text after the sign.
float_body(body, neg) ==
    IF body = <<>> THEN FloatError
    ELSE IF LowerText(body) \in {<<105, 110, 102>>,
                                 <<105, 110, 102, 105, 110, 105, 116, 121>>}
    THEN FloatOf("inf", neg)
    ELSE IF LowerText(body) = <<110, 97, 110>> THEN FloatOf("nan", neg)
    ELSE IF ~underscores_ok(body) THEN FloatError
    ELSE float_number(SelectSeq(body, LAMBDA c : c # 95), neg)

\* t: the text, surrounding whitespace dropped.
float_signed(t) ==
    IF t = <<>> THEN FloatError
    ELSE IF t[1] \in {43, 45} THEN float_body(SubSeq(t, 2, Len(t)), t[1] = 45)
    ELSE float_body(t, FALSE)

float_strip(text) ==
    LET keep == {i \in 1..Len(text) :
                    ~(IF IsAscii(text) THEN text[i] \in 9..13 \/ text[i] = 32
                      ELSE IsSpace(text[i]))}
    IN  IF keep = {} THEN <<>>
        ELSE SubSeq(text, SetMin(keep), SetMax(keep))

float_parse(text) == float_signed(float_strip(text))

\* f"{num:.2f}" of a double that is not finite: inf, -inf, nan.
format_nonfinite(num) ==
    IF num.kind = "nan" THEN <<110, 97, 110>>
    ELSE IF num.neg THEN <<45, 105, 110, 102>>
    ELSE <<105, 110, 102>>

\* abs(float(amount) - num) < 0.001 where num is float(amount) itself: the
\* difference of a finite double with itself is 0.0; inf - inf and
\* nan - nan are nan, and nan < 0.001 is False.
self_diff_below_eps(num) == num.kind = "finite"

\* Lines 54-58 of validate_amount, float(amount) having ended as num: it
\* must parse; then
\* str(amount) == formatted or abs(float(amount) - num) < 0.001.
\* For a finite num the second test holds whatever formatted is, so
\* formatted decides only for inf and nan.
amount_test(amount, num) ==
    IF ~num.ok THEN Raised(num.kind)
    ELSE Returned(\/ self_diff_below_eps(num)
                  \/ amount = format_nonfinite(num))

\* The try block of validate_amount; float(None) raises TypeError.
amount_try(amount) ==
    IF amount = None THEN Raised("TypeError")
    ELSE amount_test(amount, float_parse(amount))

\* except (ValueError, TypeError)
AmountCaught == {"ValueError", "TypeError"}

\* The call validate_amount(amount)
validate_amount_call(amount) ==
    IF ~Truthy(amount) THEN Returned(FALSE)
    ELSE except_return_false(amount_try(amount), AmountCaught)

\* validate_amount(amount), the value returned
validate_amount(amount) == validate_amount_call(amount).value

\* --- datetime.fromisoformat and the pattern test ---

\* dt_string.replace('Z', '+00:00') on s[lo..hi]
RECURSIVE replace_Z_range(_, _, _)
replace_Z_range(s, lo, hi) ==
    IF lo > hi THEN <<>>
    ELSE IF lo = hi
    THEN (IF s[lo] = 90 THEN <<43, 48, 48, 58, 48, 48>> ELSE <<s[lo]>>)
    ELSE LET mid == (lo + hi) \div 2
         IN  replace_Z_range(s, lo, mid) \o replace_Z_range(s, mid + 1, hi)

replace_Z(s) == replace_Z_range(s, 1, Len(s))

AllAsciiDigits(s, from, to) ==
    to <= Len(s) /\ \A i \in from..to : IsAsciiDigit(s[i])

Num2(s, i) == (s[i] - 48) * 10 + (s[i + 1] - 48)

Num4(s, i) == Num2(s, i) * 100 + Num2(s, i + 2)

IsLeap(y) == (y % 4 = 0 /\ y % 100 # 0) \/ y % 400 = 0

DaysInMonth(y, m) ==
    IF m = 2 THEN (IF IsLeap(y) THEN 29 ELSE 28)
    ELSE IF m \in {4, 6, 9, 11} THEN 30
    ELSE 31

\* hh[:mm[:ss[(.|,)f+]]] in ASCII digits: the three numbers, or not ok.
hh_mm_ss(s) ==
    LET n    == Len(s)
        bad  == [ok |-> FALSE, h |-> 0, m |-> 0, s |-> 0]
        hOk  == AllAsciiDigits(s, 1, 2)
        mOk  == n >= 5 /\ s[3] = 58 /\ AllAsciiDigits(s, 4, 5)
        sOk  == n >= 8 /\ s[6] = 58 /\ AllAsciiDigits(s, 7, 8)
        fOk  == n >= 10 /\ s[9] \in {44, 46} /\ AllAsciiDigits(s, 10, n)
    IN  IF n = 2 /\ hOk THEN [ok |-> TRUE, h |-> Num2(s, 1), m |-> 0, s |-> 0]
        ELSE IF n = 5 /\ hOk /\ mOk
        THEN [ok |-> TRUE, h |-> Num2(s, 1), m |-> Num2(s, 4), s |-> 0]
        ELSE IF hOk /\ mOk /\ sOk /\ (n = 8 \/ fOk)
        THEN [ok |-> TRUE, h |-> Num2(s, 1), m |-> Num2(s, 4), s |-> Num2(s, 7)]
        ELSE bad

SecondsPerDay == 86400

\* datetime.fromisoformat(t) succeeds (CPython 3.11), for t in the extended
\* format YYYY-MM-DD[*hh[:mm[:ss[.f+]]][(+|-)hh[:mm[:ss[.f+]]]]]: a valid
\* calendar date, a valid time of day, a UTC offset strictly inside one
\* day.  The basic and week-date formats are not accepted here: they have
\* no hyphen at the place the pattern test of validate_datetime needs one.
\* Two leniencies of the 3.11 parser are left out, so such inputs are
\* rejected here though CPython takes them: a '.' with no digits before an
\* offset ("...:45.+00:00") and a fraction after a bare offset hour
\* ("...:45+03.5").  None of the inputs below has either form.
fromisoformat_ok(t) ==
    LET n      == Len(t)
        dateOk == /\ n >= 10
                  /\ AllAsciiDigits(t, 1, 4) /\ t[5] = 45
                  /\ AllAsciiDigits(t, 6, 7) /\ t[8] = 45
                  /\ AllAsciiDigits(t, 9, 10)
                  /\ Num4(t, 1) >= 1
                  /\ Num2(t, 6) \in 1..12
                  /\ Num2(t, 9) \in 1..DaysInMonth(Num4(t, 1), Num2(t, 6))
        ts     == SubSeq(t, 12, n)
        signs  == {i \in 1..Len(ts) : ts[i] \in {43, 45}}
        sg     == IF signs = {} THEN Len(ts) + 1 ELSE SetMin(signs)
        tm     == hh_mm_ss(SubSeq(ts, 1, sg - 1))
        tz     == hh_mm_ss(SubSeq(ts, sg + 1, Len(ts)))
        timeOk == tm.ok /\ tm.h < 24 /\ tm.m < 60 /\ tm.s < 60
        tzOk   == tz.ok /\ tz.h * 3600 + tz.m * 60 + tz.s < SecondsPerDay
    IN  /\ dateOk
        /\ n # 11
        /\ n > 11 => (timeOk /\ (signs # {} => tzOk))

\* re.match(r'^\d{4}-\d{2}-\d{2}T\d{2}:\d{2}:\d{2}', s): the pattern is
\* anchored at the start only, and \d is any decimal digit.
PatternLen == 19

re_match_pattern(s) ==
    /\ Len(s) >= PatternLen
    /\ \A i \in 1..PatternLen :
          IF i \in {5, 8} THEN s[i] = 45
          ELSE IF i = 11 THEN s[i] = 84
          ELSE IF i \in {14, 17} THEN s[i] = 58
          ELSE IsDecimal(s[i])

\* The try block of validate_datetime; None has no replace method.
datetime_try(dt_string) ==
    IF dt_string = None THEN Raised("AttributeError")
    ELSE IF ~fromisoformat_ok(replace_Z(dt_string)) THEN Raised("ValueError")
    ELSE Returned(re_match_pattern(dt_string))

\* except (ValueError, AttributeError)
DatetimeCaught == {"ValueError", "AttributeError"}

\* The call validate_datetime(dt_string)
validate_datetime_call(dt_string) ==
    IF ~Truthy(dt_string) THEN Returned(FALSE)
    ELSE except_return_false(datetime_try(dt_string), DatetimeCaught)

\* validate_datetime(dt_string), the value returned
validate_datetime(dt_string) == validate_datetime_call(dt_string).value

\* ------------------------------------------------------------------------
\* Encoder
\* ------------------------------------------------------------------------

\* The five arguments of generate_zatca_qr and verify_zatca_qr, in order.
ArgNames == <<"seller_name", "vat_number", "invoice_datetime",
              "total_amount", "vat_amount">>

\* The test each `if` of the validation block makes: TRUE when argument k
\* (1..5) is rejected.
arg_invalid(a, k) ==
    IF k = 1 THEN a.seller_name = <<>> \/ strip(a.seller_name) = <<>>
    ELSE IF k = 2 THEN ~validate_vat_number(a.vat_number)
    ELSE IF k = 3 THEN ~validate_datetime(a.invoice_datetime)
    ELSE IF k = 4 THEN ~validate_amount(a.total_amount)
    ELSE ~validate_amount(a.vat_amount)

\* first_invalid checking both amounts before the VAT number and the
\* datetime.
first_invalid_amounts_first(a) ==
    IF arg_invalid(a, 1) THEN 1
    ELSE IF arg_invalid(a, 4) THEN 4
    ELSE IF arg_invalid(a, 5) THEN 5
    ELSE IF arg_invalid(a, 2) THEN 2
    ELSE IF arg_invalid(a, 3) THEN 3
    ELSE 0

\* The validation block: the first argument rejected, in the order the
\* `if`s are written, or 0 when all pass.
first_invalid(a) ==
    IF arg_invalid(a, 1) THEN 1
    ELSE IF arg_invalid(a, 2) THEN 2
    ELSE IF arg_invalid(a, 3) THEN 3
    ELSE IF arg_invalid(a, 4) THEN 4
    ELSE IF arg_invalid(a, 5) THEN 5
    ELSE 0

\* field_values with the seller name as given, not stripped.
field_values_untrimmed(a) ==
    <<a.seller_name, clean_vat(a.vat_number), a.invoice_datetime,
      a.total_amount, a.vat_amount>>

\* The value each tag's field is built from.
field_values(a) ==
    <<strip(a.seller_name), clean_vat(a.vat_number), a.invoice_datetime,
      a.total_amount, a.vat_amount>>

\* build_fields putting each new field in front of the bytes built so far.
RECURSIVE build_fields_prepend(_, _, _)
build_fields_prepend(values, from, tlv_data) ==
    IF from > Len(values) THEN [ok |-> TRUE, value |-> tlv_data]
    ELSE LET f == build_tlv_field(from, values[from])
         IN  IF ~f.ok THEN f
             ELSE build_fields_prepend(values, from + 1, f.value \o tlv_data)

\* tlv_data += build_tlv_field(tag, value) for tags from..5 in order, from
\* the bytes built so far: all the bytes, or the first error raised.
RECURSIVE build_fields(_, _, _)
build_fields(values, from, tlv_data) ==
    IF from > Len(values) THEN [ok |-> TRUE, value |-> tlv_data]
    ELSE LET f == build_tlv_field(from, values[from])
         IN  IF ~f.ok THEN f
             ELSE build_fields(values, from + 1, tlv_data \o f.value)

\* generate_zatca_qr checking each argument just before building its field:
\* the first argument, in tag order, that is rejected or too large decides.
generate_zatca_qr_interleaved(a) ==
    LET stops == {k \in 1..5 : \/ arg_invalid(a, k)
                                \/ ExceedsMax(utf8_encode(field_values(a)[k]))}
        tlv_data == build_fields(field_values(a), 1, <<>>)
    IN  IF stops = {}
        THEN [ok |-> TRUE, error |-> "", field |-> 0,
              value |-> b64encode(tlv_data.value)]
        ELSE IF arg_invalid(a, SetMin(stops))
        THEN [ok |-> FALSE, error |-> "Validation", field |-> SetMin(stops),
              value |-> <<>>]
        ELSE [ok |-> FALSE, error |-> "FieldTooLarge",
              field |-> SetMin(stops), value |-> <<>>]

\* generate_zatca_qr: the Base64 text, or the ValueError raised, told apart
\* by its message: "Validation" for the five checks (field: the argument),
\* "FieldTooLarge" for build_tlv_field's (field: the tag).
generate_zatca_qr(a) ==
    LET bad == first_invalid(a)
    IN  IF bad # 0
        THEN [ok |-> FALSE, error |-> "Validation", field |-> bad,
              value |-> <<>>]
        ELSE LET tlv_data == build_fields(field_values(a), 1, <<>>)
             IN  IF ~tlv_data.ok
                 THEN [ok |-> FALSE, error |-> "FieldTooLarge",
                       field |-> tlv_data.tag, value |-> <<>>]
                 ELSE [ok |-> TRUE, error |-> "", field |-> 0,
                       value |-> b64encode(tlv_data.value)]

\* ------------------------------------------------------------------------
\* Verifier
\* ------------------------------------------------------------------------

\* expected_values comparing tag 1 with the expected seller name as given.
expected_values_raw(e) ==
    <<e.seller_name, clean_vat(e.vat_number), e.invoice_datetime,
      e.total_amount, e.vat_amount>>

\* expected_values with the two amounts swapped.
expected_values_swapped(e) ==
    <<strip(e.seller_name), clean_vat(e.vat_number), e.invoice_datetime,
      e.vat_amount, e.total_amount>>

\* What each tag is compared with: the expected seller name stripped, the
\* expected VAT number cleaned, the other three as given.
\* expected_values comparing tag 2 with the expected VAT number as given.
expected_values_vat_raw(e) ==
    <<strip(e.seller_name), e.vat_number, e.invoice_datetime,
      e.total_amount, e.vat_amount>>

expected_values(e) ==
    <<strip(e.seller_name), clean_vat(e.vat_number), e.invoice_datetime,
      e.total_amount, e.vat_amount>>

\* The value each mismatch message prints as expected: the seller name as
\* given, the VAT number cleaned.
printed_expected(e) ==
    <<e.seller_name, clean_vat(e.vat_number), e.invoice_datetime,
      e.total_amount, e.vat_amount>>

\* tag_mismatch reading the tag-th field of the buffer, in the order the
\* fields were met, in place of the value under the tag.
tag_mismatch_by_position(decoded, tag, expected) ==
    \/ Len(decoded) < tag
    \/ decoded[tag].tag # tag
    \/ decoded[tag].value # expected

\* decoded.get(tag) != expected
tag_mismatch(decoded, tag, expected) == dict_get(decoded, tag) # <<expected>>

\* compare_tags stopping at the first comparison that fails.
RECURSIVE compare_tags_first_only(_, _, _, _)
compare_tags_first_only(decoded, e, tag, errors) ==
    IF tag > 5 THEN errors
    ELSE IF tag_mismatch(decoded, tag, expected_values(e)[tag])
    THEN Append(errors, [kind |-> "mismatch", tag |-> tag,
                         expected |-> printed_expected(e)[tag],
                         got |-> dict_get(decoded, tag)])
    ELSE compare_tags_first_only(decoded, e, tag + 1, errors)

\* The five comparisons in tag order from tag `tag`, each appending its
\* message to errors when it fails.
RECURSIVE compare_tags(_, _, _, _)
compare_tags(decoded, e, tag, errors) ==
    IF tag > 5 THEN errors
    ELSE compare_tags(decoded, e, tag + 1,
            IF tag_mismatch(decoded, tag, expected_values(e)[tag])
            THEN Append(errors, [kind |-> "mismatch", tag |-> tag,
                                 expected |-> printed_expected(e)[tag],
                                 got |-> dict_get(decoded, tag)])
            ELSE errors)

\* extra_tags reporting only the tags above 5.
extra_tags_above_five(decoded) ==
    LET extra == SelectSeq(dict_keys(decoded), LAMBDA t : t > 5)
    IN  [i \in 1..Len(extra) |->
            [kind |-> "unexpected", tag |-> extra[i], expected |-> <<>>,
             got |-> <<>>]]

\* for tag in decoded.keys(): if tag not in [1, 2, 3, 4, 5]: append
extra_tags(decoded) ==
    LET keys  == dict_keys(decoded)
        extra == SelectSeq(keys, LAMBDA t : t \notin 1..5)
    IN  [i \in 1..Len(extra) |->
            [kind |-> "unexpected", tag |-> extra[i], expected |-> <<>>,
             got |-> <<>>]]

\* decoding_error appending nothing.
decoding_error_silent(errors) == [is_valid |-> FALSE, errors |-> errors]

\* except Exception as e: errors.append(f"Decoding error: ..."), then
\* return False, errors.
decoding_error(errors) ==
    [is_valid |-> FALSE,
     errors |-> Append(errors, [kind |-> "decoding", tag |-> 0,
                                expected |-> <<>>, got |-> <<>>])]

\* verify_zatca_qr: (is_valid, errors).  The ValueError of decode_zatca_qr
\* is raised before anything is appended to errors.
verify_zatca_qr(base64_string, e) ==
    LET d == decode_zatca_qr(base64_string)
    IN  IF ~d.ok
        THEN decoding_error(<<>>)
        ELSE LET errors == compare_tags(d.value, e, 1, <<>>)
                           \o extra_tags(d.value)
             IN  [is_valid |-> Len(errors) = 0, errors |-> errors]

\* ------------------------------------------------------------------------
\* Inputs
\* ------------------------------------------------------------------------

AcmeCo          == <<65, 99, 109, 101, 32, 67, 111>>           \* "Acme Co"
AcmePadded      == <<32, 65, 99, 109, 101, 32, 67, 111, 9>>    \* " Acme Co\t"
BlankName       == <<32, 32, 9>>                               \* "  \t"
ArabicName      == <<1588, 1585, 1603, 1577>>                  \* 8 UTF-8 bytes
Vat15           == <<51, 49, 52, 50, 54, 53, 50, 54, 55, 50, 48, 48, 48, 48, 51>>
VatHyphens      == <<51, 49, 52, 45, 50, 54, 53, 45, 50, 54, 55, 45,
                     50, 48, 48, 45, 48, 48, 51>>              \* 314-265-...
VatSpaces       == <<51, 49, 52, 32, 50, 54, 53, 32, 50, 54, 55, 32,
                     50, 48, 48, 32, 48, 48, 51>>              \* 314 265 ...
Vat14           == <<51, 49, 52, 50, 54, 53, 50, 54, 55, 50, 48, 48, 48, 48>>
Vat16           == Vat15 \o <<52>>
VatNewline      == Vat15 \o <<10>>
VatArabicIndic  == <<1635, 1633, 1636, 1634, 1638, 1637, 1634, 1638, 1639,
                     1634, 1632, 1632, 1632, 1632, 1635>>
Stamp           == <<50, 48, 50, 52, 45, 48, 49, 45, 49, 53, 84,
                     49, 48, 58, 51, 48, 58, 52, 53>>  \* 2024-01-15T10:30:45
StampZ          == Stamp \o <<90>>
StampDateOnly   == SubSeq(Stamp, 1, 10)
StampFeb30      == <<50, 48, 50, 52, 45, 48, 50, 45, 51, 48, 84,
                     49, 48, 58, 51, 48, 58, 52, 53>>  \* 2024-02-30T10:30:45
Amt1000_50      == <<49, 48, 48, 48, 46, 53, 48>>
Amt1000_5       == <<49, 48, 48, 48, 46, 53>>
Amt150_08       == <<49, 53, 48, 46, 48, 56>>
Amt0_01         == <<48, 46, 48, 49>>
AmtAbc          == <<97, 98, 99>>
AmtInf          == <<105, 110, 102>>
AmtNan          == <<110, 97, 110>>

Amt1000_501     == <<49, 48, 48, 48, 46, 53, 48, 49>>
Amt1000_00      == <<49, 48, 48, 48, 46, 48, 48>>
Amt1e3          == <<49, 101, 51>>
AmtPadded       == <<32, 49, 48, 46, 48, 48, 32>>              \* " 10.00 "
AmtNegInf       == <<45, 105, 110, 102>>
StampNoSeconds  == SubSeq(Stamp, 1, 16)
StampShortYear  == SubSeq(Stamp, 3, 19)                \* 24-01-15T10:30:45
StampOffset     == Stamp \o <<43, 48, 51, 58, 48, 48>>          \* ...+03:00
StampFraction   == Stamp \o <<46, 49, 50, 51>>                  \* ....123
StampHour24     == <<50, 48, 50, 52, 45, 48, 49, 45, 49, 53, 84,
                     50, 52, 58, 51, 48, 58, 52, 53>>  \* 2024-01-15T24:30:45
VatSuperscript  == Rep(178, VatDigits)                         \* 15 times U+00B2
VatLetter       == SubSeq(Vat15, 1, 14) \o <<65>>

\* How far past the length limit the long values go.
MaxOver == 1

\* Values at and around the limit: n bytes of 'A'; the same between
\* whitespace; n bytes in 2-byte characters; an amount of n bytes.
LongName(n)   == Rep(65, n)
PaddedLong(n) == <<32>> \o Rep(65, n) \o <<9, 32>>
WideName(n)   == Rep(1588, n \div 2) \o Rep(65, n % 2)
LongAmount(n) == Rep(48, n - 4) \o <<49, 46, 48, 48>>

LongLens == MaxFieldLen..(MaxFieldLen + MaxOver)

SellerNames ==
    {AcmeCo, AcmePadded, <<>>, BlankName, ArabicName}
    \cup {LongName(n) : n \in LongLens}
    \cup {PaddedLong(MaxFieldLen), WideName(MaxFieldLen + 1)}

VatNumbers ==
    {Vat15, VatHyphens, VatSpaces, Vat14, Vat16, VatNewline, VatArabicIndic,
     <<>>}

Datetimes == {Stamp, StampZ, StampDateOnly, StampFeb30, <<>>}

TotalAmounts ==
    {Amt1000_50, Amt1000_5, Amt0_01, AmtAbc, AmtInf, <<>>}
    \cup {LongAmount(MaxFieldLen + 1)}

VatAmounts == {Amt150_08, Amt0_01, AmtAbc, AmtNan, <<>>}
              \cup {LongAmount(MaxFieldLen + 1)}

\* --- Hand-made buffers ---

\* One TLV field carrying `value` under `tag`.
Field(tag, value) == <<tag, Len(utf8_encode(value))>> \o utf8_encode(value)

\* The five fields of the scenario.
BufFive ==
    Field(1, AcmeCo) \o Field(2, Vat15) \o Field(3, Stamp)
    \o Field(4, Amt1000_50) \o Field(5, Amt150_08)

BufArabic        == Field(1, ArabicName) \o SubSeq(BufFive, 10, Len(BufFive))
BufExtra6        == BufFive \o Field(6, AcmeCo)
BufExtra0        == Field(0, <<>>) \o BufFive
BufExtras        == Field(200, AcmeCo) \o BufFive \o Field(6, <<>>)
BufRepeated4     == BufFive \o Field(4, Amt0_01)
BufRepeated1     == Field(1, ArabicName) \o BufFive
BufFour          == Field(1, AcmeCo) \o Field(2, Vat15) \o Field(3, Stamp)
                    \o Field(4, Amt1000_50)
BufReversed      == Field(5, Amt150_08) \o Field(4, Amt1000_50)
                    \o Field(3, Stamp) \o Field(2, Vat15) \o Field(1, AcmeCo)
BufOnly6         == Field(6, AcmeCo)
BufOneByte       == <<1>>
BufTrailingByte  == BufFive \o <<6>>
BufCutValue      == SubSeq(BufFive, 1, Len(BufFive) - 1)
BufCutHeader     == SubSeq(BufFive, 1, 10)
BufLongLength    == <<1, 255, 65>>
BufBadUtf8       == <<1, 1, 255>> \o SubSeq(BufFive, 10, Len(BufFive))
BufBadUtf8Cut    == <<1, 2, 195, 40, 2>>

Buffers ==
    {<<>>, BufFive, BufArabic, BufExtra6, BufExtra0, BufExtras, BufRepeated4,
     BufRepeated1, BufFour, BufReversed, BufOnly6, BufOneByte,
     BufTrailingByte, BufCutValue, BufCutHeader, BufLongLength, BufBadUtf8,
     BufBadUtf8Cut}

\* s with character c put in before position i.
Inserted(s, i, c) == SubSeq(s, 1, i - 1) \o <<c>> \o SubSeq(s, i, Len(s))

\* Texts that are not Base64: characters outside the alphabet, padding
\* missing, in excess or in the middle, a length no padding completes.
B64Bang      == Inserted(b64encode(BufFive), 3, 33)
B64Newline   == Inserted(b64encode(BufFive), 5, 10)
B64Star6     == Inserted(b64encode(BufExtra6), 9, 42)
B64NonAscii  == Inserted(b64encode(BufFive), 3, 233)
B64NoPad     == SelectSeq(b64encode(BufFive), LAMBDA c : c # PadChar)
B64ExtraPad  == b64encode(BufExtra6) \o <<PadChar>>
B64AfterPad  == b64encode(BufFive) \o b64encode(BufOnly6)
B64OneChar   == <<65>>
B64OnlyPad   == <<PadChar, PadChar>>

NotBase64 ==
    {B64Bang, B64Newline, B64Star6, B64NonAscii, B64NoPad, B64ExtraPad,
     B64AfterPad, B64OneChar, B64OnlyPad}

\* The texts decode_zatca_qr and verify_zatca_qr are called on.
Encoded == {b64encode(b) : b \in Buffers} \cup NotBase64

\* What the validators are called on.
Texts ==
    VatNumbers \cup Datetimes \cup TotalAmounts \cup VatAmounts
    \cup {None, BlankName, VatSuperscript, VatLetter,
          Amt1000_501, Amt1000_00, Amt1e3, AmtPadded, AmtNegInf,
          StampNoSeconds, StampShortYear, StampOffset, StampFraction,
          StampHour24}

\* The values argument k is drawn from.
Domain(k) ==
    IF k = 1 THEN SellerNames
    ELSE IF k = 2 THEN VatNumbers
    ELSE IF k = 3 THEN Datetimes
    ELSE IF k = 4 THEN TotalAmounts
    ELSE VatAmounts

MkArgs(a, b, c, d, e) ==
    [seller_name |-> a, vat_number |-> b, invoice_datetime |-> c,
     total_amount |-> d, vat_amount |-> e]

\* The scenario of the test script.
BaseArgs == MkArgs(AcmeCo, Vat15, Stamp, Amt1000_50, Amt150_08)

ArgAt(a, k) == a[ArgNames[k]]

WithArg(a, k, v) == [a EXCEPT ![ArgNames[k]] = v]

\* How many of the five arguments of one call differ from the scenario's.
MaxDeviations == 2

Deviations(a) == Cardinality({k \in 1..5 : ArgAt(a, k) # ArgAt(BaseArgs, k)})

ArgSets ==
    {a \in [seller_name : SellerNames, vat_number : VatNumbers,
            invoice_datetime : Datetimes, total_amount : TotalAmounts,
            vat_amount : VatAmounts] : Deviations(a) <= MaxDeviations}

\* The expected values verify_zatca_qr is called with on such a text.
ExpectedSets ==
    {BaseArgs,
     WithArg(BaseArgs, 1, AcmePadded),
     WithArg(BaseArgs, 2, VatHyphens),
     WithArg(BaseArgs, 4, Amt0_01),
     WithArg(WithArg(BaseArgs, 1, ArabicName), 5, Amt0_01),
     MkArgs(ArabicName, Vat14, StampZ, Amt0_01, Amt0_01)}

\* ------------------------------------------------------------------------
\* A caller of the module
\* ------------------------------------------------------------------------
\* The module keeps no state of its own.  The state is what one caller
\* holds: the arguments and result of its generate_zatca_qr call and the
\* inputs and result of the decode or verify call it makes on the tag, or
\* the input and result of a build_tlv_field call.  Every function is pure,
\* so one call chain per caller shows all there is to see of it.

VARIABLES
    op,        \* the last call made: "none", "generate", "decode", "verify",
               \* "build", "validate", "decode_crafted", "verify_crafted"
    args,      \* the arguments of the last generate_zatca_qr call
    qr_code,   \* its result
    buffer,    \* the Base64 text given to decode_zatca_qr / verify_zatca_qr
    carried,   \* the five field values framed in buffer
    expected,  \* the expected values given to verify_zatca_qr
    decoded,   \* the result of decode_zatca_qr
    verdict,   \* the result of verify_zatca_qr
    field_in,  \* the (tag, value) given to build_tlv_field
    tlv,       \* its result
    checked,   \* the text (or None) given to the three validators
    valid,     \* how each validator's call ended
    frames,    \* the local variables of the calls in progress, one frame
               \* for each of two concurrent callers
    collection,\* the invoices collection of the database
    next_id,   \* the number of documents inserted so far
    response   \* the last HTTP response of the invoice routes

vars == <<op, args, qr_code, buffer, carried, expected, decoded, verdict,
          field_in, tlv, checked, valid, frames, collection, next_id,
          response>>

NoArgs    == MkArgs(<<>>, <<>>, <<>>, <<>>, <<>>)
NoQr      == [ok |-> FALSE, error |-> "none", field |-> 0, value |-> <<>>]
NoDecoded == [ok |-> FALSE, error |-> "none", cause |-> ""]
NoVerdict == [is_valid |-> FALSE, errors |-> <<>>]
NoField   == [tag |-> 0, value |-> <<>>]
NoTlv     == [ok |-> FALSE, error |-> "none", tag |-> 0, length |-> 0]
NoValid   == [vat_number |-> Returned(FALSE), amount |-> Returned(FALSE),
              datetime |-> Returned(FALSE)]

\* ------------------------------------------------------------------------
\* Invoice routes
\* ------------------------------------------------------------------------
\* routes/invoices.py keeps invoices in a MongoDB collection and makes the
\* tag of an invoice from the time it was created and its two amounts.

\* --- datetime ---

DateTime(y, mo, d, h, mi, s, us) ==
    [year |-> y, month |-> mo, day |-> d, hour |-> h, minute |-> mi,
     second |-> s, microsecond |-> us]

\* n in decimal, zero-padded to `width` digits.
RECURSIVE Pad(_, _)
Pad(n, width) ==
    IF width = 0 THEN <<>> ELSE Pad(n \div 10, width - 1) \o <<48 + (n % 10)>>

\* dt.strftime("%Y-%m-%dT%H:%M:%S")
format_datetime(dt) ==
    Pad(dt.year, 4) \o <<45>> \o Pad(dt.month, 2) \o <<45>> \o Pad(dt.day, 2)
    \o <<84>> \o Pad(dt.hour, 2) \o <<58>> \o Pad(dt.minute, 2) \o <<58>>
    \o Pad(dt.second, 2)

\* dt.isoformat(): the microseconds follow, as six digits, unless they are 0.
isoformat(dt) ==
    format_datetime(dt)
    \o (IF dt.microsecond = 0 THEN <<>> ELSE <<46>> \o Pad(dt.microsecond, 6))

Num6(s, i) == Num2(s, i) * 10000 + Num4(s, i + 2)

\* .replace("Z", "")
remove_Z(s) == SelectSeq(s, LAMBDA c : c # 90)

\* fromisoformat rounding the fraction to the nearest second.
fromisoformat_rounded(t) ==
    IF ~fromisoformat_ok(t) \/ Len(t) \notin {19, 26}
    THEN [ok |-> FALSE, value |-> DateTime(0, 0, 0, 0, 0, 0, 0)]
    ELSE [ok |-> TRUE,
          value |-> DateTime(Num4(t, 1), Num2(t, 6), Num2(t, 9),
                             Num2(t, 12), Num2(t, 15),
                             IF Len(t) = 26 /\ Num6(t, 21) >= 500000
                             THEN Num2(t, 18) + 1 ELSE Num2(t, 18),
                             0)]

\* datetime.fromisoformat(t) for the two forms isoformat() writes:
\* YYYY-MM-DDTHH:MM:SS and YYYY-MM-DDTHH:MM:SS.ffffff.
fromisoformat(t) ==
    IF ~fromisoformat_ok(t) \/ Len(t) \notin {19, 26}
    THEN [ok |-> FALSE, value |-> DateTime(0, 0, 0, 0, 0, 0, 0)]
    ELSE [ok |-> TRUE,
          value |-> DateTime(Num4(t, 1), Num2(t, 6), Num2(t, 9),
                             Num2(t, 12), Num2(t, 15), Num2(t, 18),
                             IF Len(t) = 26 THEN Num6(t, 21) ELSE 0)]

\* --- float ---
\* A float is written as its kind and, when "finite", its value in
\* hundredths; "1e300" is the double nearest to 10^300.

Finite(cents) == [kind |-> "finite", cents |-> cents]

Float1e300 == [kind |-> "1e300", cents |-> 0]

\* The integer part of 1e300 printed in full, as '%.2f' prints it.
Digits1e300 ==
    <<49, 48, 48, 48, 48, 48, 48, 48, 48, 48, 48, 48, 48, 48, 48, 48, 48,
      53, 50, 53, 48, 52, 55, 54, 48, 50, 53, 53, 50, 48, 52, 52, 50, 48,
      50, 52, 56, 55, 48, 52, 52, 54, 56, 53, 56, 49, 49, 48, 56, 49, 53,
      57, 49, 53, 52, 57, 49, 53, 56, 53, 52, 49, 49, 53, 53, 49, 49, 56,
      48, 50, 52, 53, 55, 57, 56, 56, 57, 48, 56, 49, 57, 53, 55, 56, 54,
      51, 55, 49, 51, 55, 53, 48, 56, 48, 52, 52, 55, 56, 54, 52, 48, 52,
      51, 55, 48, 52, 52, 52, 51, 56, 51, 50, 56, 56, 51, 56, 55, 56, 49,
      55, 54, 57, 52, 50, 53, 50, 51, 50, 51, 53, 51, 54, 48, 52, 51, 48,
      53, 55, 53, 54, 52, 52, 55, 57, 50, 49, 56, 52, 55, 56, 54, 55, 48,
      54, 57, 56, 50, 56, 52, 56, 51, 56, 55, 50, 48, 48, 57, 50, 54, 53,
      55, 53, 56, 48, 51, 55, 51, 55, 56, 51, 48, 50, 51, 51, 55, 57, 52,
      55, 56, 56, 48, 57, 48, 48, 53, 57, 51, 54, 56, 57, 53, 51, 50, 51,
      52, 57, 55, 48, 55, 57, 57, 57, 52, 53, 48, 56, 49, 49, 49, 57, 48,
      51, 56, 57, 54, 55, 54, 52, 48, 56, 56, 48, 48, 55, 52, 54, 53, 50,
      55, 52, 50, 55, 56, 48, 49, 52, 50, 52, 57, 52, 53, 55, 57, 50, 53,
      56, 55, 56, 56, 56, 50, 48, 48, 53, 54, 56, 52, 50, 56, 51, 56, 49,
      49, 53, 54, 54, 57, 52, 55, 50, 49, 57, 54, 51, 56, 54, 56, 54, 53,
      52, 53, 57, 52, 48, 48, 53, 52, 48, 49, 54, 48>>

\* n in decimal, without leading zeros.
RECURSIVE Decimal(_)
Decimal(n) ==
    IF n < 10 THEN <<48 + n>> ELSE Decimal(n \div 10) \o <<48 + (n % 10)>>

\* f"{amount:.2f}"
format_amount(amount) ==
    IF amount.kind = "1e300" THEN Digits1e300 \o <<46, 48, 48>>
    ELSE Decimal(amount.cents \div 100) \o <<46>> \o Pad(amount.cents % 100, 2)

\* --- request payloads ---
\* A JSON value given for an amount: a number, null, or a string.

JsonNumber(x) == [json |-> "number", number |-> x, string |-> <<>>]
JsonNull      == [json |-> "null", number |-> Finite(0), string |-> <<>>]
JsonString(t) == [json |-> "string", number |-> Finite(0), string |-> t]

\* The hundredths a plain decimal text (digits, '.', two digits) stands for.
RECURSIVE cents_of(_)
cents_of(t) ==
    IF t = <<>> THEN 0
    ELSE IF t[Len(t)] = 46 THEN cents_of(SubSeq(t, 1, Len(t) - 1))
    ELSE cents_of(SubSeq(t, 1, Len(t) - 1)) * 10 + (t[Len(t)] - 48)

\* float(v) if v is not None else 0.0; ok is FALSE when float() raises.
to_float(v) ==
    IF v.json = "null" THEN [ok |-> TRUE, value |-> Finite(0)]
    ELSE IF v.json = "number" THEN [ok |-> TRUE, value |-> v.number]
    ELSE IF float_parse(v.string).ok
    THEN [ok |-> TRUE, value |-> Finite(cents_of(v.string))]
    ELSE [ok |-> FALSE, value |-> Finite(0)]

\* --- the collection ---
\* A document keeps, of the fields of invoice_doc, those a tag is made
\* from; qr_code is None in a document that has no such key.

\* The seller name and VAT number written in the three routes.
CompanyName ==
    <<1605, 1572, 1587, 1587, 1577, 32, 1608, 1579, 1576, 1577, 32, 1575,
      1604, 1593, 1586, 32, 1604, 1602, 1591, 1593, 32, 1594, 1610, 1575,
      1585, 32, 1575, 1604, 1578, 1603, 1610, 1610, 1601, 32, 1608, 1575,
      1604, 1578, 1576, 1585, 1610, 1583>>

CompanyVat == Vat15

InvoiceDoc(id, created_at, total, vat_amount) ==
    [id |-> id, created_at |-> created_at, total |-> total,
     vat_amount |-> vat_amount, qr_code |-> None]

has_id(coll, id) == \E i \in 1..Len(coll) : coll[i].id = id

\* collection.find_one({"_id": id})
find_one(coll, id) == coll[CHOOSE i \in 1..Len(coll) : coll[i].id = id]

\* update_one setting the key in every document of the collection.
update_one_unfiltered(coll, id, value) ==
    [i \in 1..Len(coll) |-> [coll[i] EXCEPT !.qr_code = value]]

\* collection.update_one({"_id": id}, {"$set": {"qr_code": qr_code}})
update_one(coll, id, value) ==
    [i \in 1..Len(coll) |->
        IF coll[i].id = id THEN [coll[i] EXCEPT !.qr_code = value]
        ELSE coll[i]]

\* collection.delete_one({"_id": id})
delete_one(coll, id) == SelectSeq(coll, LAMBDA d : d.id # id)

\* a < b as Python compares str: by the first code point that differs.
text_less(a, b) ==
    \E i \in 1..Len(b) :
        /\ \A j \in 1..(i - 1) : j <= Len(a) /\ a[j] = b[j]
        /\ i > Len(a) \/ a[i] < b[i]

\* collection.find().sort("created_at", -1); documents with equal
\* created_at stay in insertion order.
RECURSIVE sort_newest_first(_)
sort_newest_first(docs) ==
    IF docs = <<>> THEN <<>>
    ELSE LET last  == docs[Len(docs)]
             front == sort_newest_first(SubSeq(docs, 1, Len(docs) - 1))
         IN  SelectSeq(front, LAMBDA d : ~text_less(d.created_at,
                                                    last.created_at))
             \o <<last>>
             \o SelectSeq(front, LAMBDA d : text_less(d.created_at,
                                                      last.created_at))

\* --- the routes ---
\* A route's result: the collection it leaves and its HTTP response.

NoResponse == [route |-> "none", status |-> 0, id |-> 0, body |-> <<>>]

Reply(coll, n, route, status, id, body) ==
    [collection |-> coll, next_id |-> n,
     response |-> [route |-> route, status |-> status, id |-> id,
                   body |-> body]]

\* The tag made in create_invoice from `now` and the two floats.
invoice_qr(now, total_amount, vat_amount) ==
    generate_zatca_qr(MkArgs(CompanyName, CompanyVat, format_datetime(now),
                             format_amount(total_amount),
                             format_amount(vat_amount)))

\* The tag made in list_invoices and get_invoice_qr from a stored document;
\* ok is FALSE when any line of the try block raises.
regenerate_qr(invoice) ==
    IF ~fromisoformat(remove_Z(invoice.created_at)).ok
    THEN [ok |-> FALSE, error |-> "fromisoformat", field |-> 0,
          value |-> <<>>]
    ELSE invoice_qr(fromisoformat(remove_Z(invoice.created_at)).value,
                    invoice.total, invoice.vat_amount)

\* create_stored letting the error of generate_zatca_qr reach the outer
\* except clause, with the inserted document taken back.
create_stored_strict(coll, n, doc, qr) ==
    IF qr.ok
    THEN Reply(update_one(Append(coll, doc), doc.id, qr.value), n + 1,
               "create", 201, doc.id, [doc EXCEPT !.qr_code = qr.value])
    ELSE Reply(coll, n + 1, "create", 500, doc.id,
               [error |-> "Failed to create invoice"])

\* The part of create_invoice after insert_one and find_one: the tag is
\* stored with update_one and put in the response, or the response gets
\* qr_code = None.
create_stored(coll, n, doc, qr) ==
    IF qr.ok
    THEN Reply(update_one(Append(coll, doc), doc.id, qr.value), n + 1,
               "create", 201, doc.id, [doc EXCEPT !.qr_code = qr.value])
    ELSE Reply(Append(coll, doc), n + 1, "create", 201, doc.id, doc)

\* POST /api/invoices.  payload.complete: user_id, invoice_no,
\* customer_name and items are all given.
create_invoice(coll, n, payload, now) ==
    IF ~payload.complete
    THEN Reply(coll, n, "create", 400, 0, [error |-> "required"])
    ELSE IF ~to_float(payload.total_amount).ok
            \/ ~to_float(payload.vat_amount).ok
    THEN Reply(coll, n, "create", 400, 0,
               [error |-> "Amounts must be valid numbers"])
    ELSE create_stored(coll, n,
             InvoiceDoc(n + 1, isoformat(now),
                        to_float(payload.total_amount).value,
                        to_float(payload.vat_amount).value),
             invoice_qr(now, to_float(payload.total_amount).value,
                        to_float(payload.vat_amount).value))

\* One invoice of the list_invoices response: the stored qr_code when it is
\* there, else one made on the spot, else None.
listed(invoice) ==
    IF Truthy(invoice.qr_code) THEN invoice
    ELSE LET qr == regenerate_qr(invoice)
         IN  IF qr.ok THEN [invoice EXCEPT !.qr_code = qr.value]
             ELSE [invoice EXCEPT !.qr_code = None]

\* GET /api/invoices
list_invoices(coll, n) ==
    LET invoices == sort_newest_first(coll)
    IN  Reply(coll, n, "list", 200, 0,
              [i \in 1..Len(invoices) |-> listed(invoices[i])])

\* GET /api/invoices/<invoice_id>/qr
get_invoice_qr(coll, n, invoice_id) ==
    IF ~has_id(coll, invoice_id)
    THEN Reply(coll, n, "get", 404, invoice_id,
               [error |-> "Invoice not found"])
    ELSE LET qr == regenerate_qr(find_one(coll, invoice_id))
         IN  IF ~qr.ok
             THEN Reply(coll, n, "get", 500, invoice_id,
                        [error |-> "Failed to generate QR code"])
             ELSE Reply(coll, n, "get", 200, invoice_id,
                        [invoice_id |-> invoice_id, qr_code |-> qr.value])

\* DELETE /api/invoices/<invoice_id>
delete_invoice(coll, n, invoice_id) ==
    IF ~has_id(coll, invoice_id)
    THEN Reply(coll, n, "delete", 404, invoice_id,
               [error |-> "Invoice not found"])
    ELSE Reply(delete_one(coll, invoice_id), n, "delete", 200, invoice_id,
               [message |-> "Invoice deleted successfully"])

\* --- Calls in progress ---
\* The local variables of one call of generate_zatca_qr, decode_zatca_qr or
\* verify_zatca_qr between two steps of it.  The module has no variable
\* outside its functions, so a frame is all a call reads and writes.
\* pc: "idle", "loop" (at the while test of decode_zatca_qr), "build" (at a
\* tlv_data += line of generate_zatca_qr), "returned" or "raised".
\* iterations counts the loop bodies run, or the fields built.

Callers == {1, 2}

Idle ==
    [fn |-> "none", pc |-> "idle", base64_string |-> <<>>, args |-> NoArgs,
     tlv_data |-> <<>>, offset |-> 0, result |-> EmptyDict, iterations |-> 0,
     outcome |-> <<>>]

\* An exception inside decode_zatca_qr: its except clause raises the
\* "Failed to decode" ValueError, which a verify_zatca_qr call catches and
\* turns into its (False, ["Decoding error"]) result.
frame_raise(f, cause) ==
    IF f.fn = "verify"
    THEN [f EXCEPT !.pc = "returned", !.outcome = decoding_error(<<>>)]
    ELSE [f EXCEPT !.pc = "raised",
                   !.outcome = [ok |-> FALSE, error |-> "DecodeFailed",
                                cause |-> cause]]

\* return result; in a verify_zatca_qr call the comparisons follow.
frame_return(f) ==
    IF f.fn = "verify"
    THEN [f EXCEPT !.pc = "returned",
                   !.outcome =
                       [is_valid |-> Len(compare_tags(f.result, f.args, 1, <<>>)
                                         \o extra_tags(f.result)) = 0,
                        errors |-> compare_tags(f.result, f.args, 1, <<>>)
                                   \o extra_tags(f.result)]]
    ELSE [f EXCEPT !.pc = "returned",
                   !.outcome = [ok |-> TRUE, value |-> f.result]]

\* tlv_data = base64.b64decode(base64_string); result = {}; offset = 0
decode_enter(fn, base64_string, e) ==
    IF ~b64decode(base64_string).ok
    THEN frame_raise([Idle EXCEPT !.fn = fn,
                                  !.base64_string = base64_string,
                                  !.args = e],
                     b64decode(base64_string).error)
    ELSE [Idle EXCEPT !.fn = fn, !.base64_string = base64_string,
                      !.args = e, !.pc = "loop",
                      !.tlv_data = b64decode(base64_string).value]

\* The value bytes of the field at f.offset, cut at the end of the buffer
\* as a slice is.
slice_value(f) ==
    SubSeq(f.tlv_data, f.offset + 3,
           IF f.offset + 2 + f.tlv_data[f.offset + 2] > Len(f.tlv_data)
           THEN Len(f.tlv_data)
           ELSE f.offset + 2 + f.tlv_data[f.offset + 2])

\* The frame after a loop body that raised nothing, writing into `into`.
advance(f, into) ==
    [f EXCEPT !.offset = f.offset + 2 + f.tlv_data[f.offset + 2],
              !.result = dict_set(into, f.tlv_data[f.offset + 1],
                                  utf8_decode(slice_value(f)).value),
              !.iterations = f.iterations + 1]

\* decode_iterate with `result` a variable of the module, shared by the
\* calls in progress.
decode_iterate_shared(fs, c) ==
    IF ~(fs[c].offset < Len(fs[c].tlv_data)) THEN frame_return(fs[c])
    ELSE IF fs[c].offset + 2 > Len(fs[c].tlv_data)
    THEN frame_raise(fs[c], "IncompleteField")
    ELSE IF fs[c].offset + 2 + fs[c].tlv_data[fs[c].offset + 2]
               > Len(fs[c].tlv_data)
    THEN frame_raise(fs[c], "IncompleteValue")
    ELSE IF ~utf8_decode(slice_value(fs[c])).ok
    THEN frame_raise(fs[c], "InvalidUtf8")
    ELSE advance(fs[c],
                 IF \E d \in Callers \ {c} : fs[d].pc = "loop"
                 THEN fs[CHOOSE d \in Callers \ {c} : fs[d].pc = "loop"].result
                 ELSE fs[c].result)

\* decode_iterate without the test of the value's end.
decode_iterate_unchecked(fs, c) ==
    IF ~(fs[c].offset < Len(fs[c].tlv_data)) THEN frame_return(fs[c])
    ELSE IF fs[c].offset + 2 > Len(fs[c].tlv_data)
    THEN frame_raise(fs[c], "IncompleteField")
    ELSE IF ~utf8_decode(slice_value(fs[c])).ok
    THEN frame_raise(fs[c], "InvalidUtf8")
    ELSE advance(fs[c], fs[c].result)

\* decode_iterate without the two `offset += 1` of the header.
decode_iterate_value_only(fs, c) ==
    IF ~(fs[c].offset < Len(fs[c].tlv_data)) THEN frame_return(fs[c])
    ELSE IF fs[c].offset + 2 > Len(fs[c].tlv_data)
    THEN frame_raise(fs[c], "IncompleteField")
    ELSE IF fs[c].offset + 2 + fs[c].tlv_data[fs[c].offset + 2]
               > Len(fs[c].tlv_data)
    THEN frame_raise(fs[c], "IncompleteValue")
    ELSE IF ~utf8_decode(slice_value(fs[c])).ok
    THEN frame_raise(fs[c], "InvalidUtf8")
    ELSE [advance(fs[c], fs[c].result) EXCEPT
              !.offset = fs[c].offset + fs[c].tlv_data[fs[c].offset + 2]]

\* The while test of decode_zatca_qr and, when it holds, one loop body, in
\* the frame of caller c.
decode_iterate(fs, c) ==
    IF ~(fs[c].offset < Len(fs[c].tlv_data)) THEN frame_return(fs[c])
    ELSE IF fs[c].offset + 2 > Len(fs[c].tlv_data)
    THEN frame_raise(fs[c], "IncompleteField")
    ELSE IF fs[c].offset + 2 + fs[c].tlv_data[fs[c].offset + 2]
               > Len(fs[c].tlv_data)
    THEN frame_raise(fs[c], "IncompleteValue")
    ELSE IF ~utf8_decode(slice_value(fs[c])).ok
    THEN frame_raise(fs[c], "InvalidUtf8")
    ELSE advance(fs[c], fs[c].result)

\* The validation block of generate_zatca_qr; tlv_data = b''
generate_enter(a) ==
    IF first_invalid(a) # 0
    THEN [Idle EXCEPT !.fn = "generate", !.args = a, !.pc = "raised",
                      !.outcome = [ok |-> FALSE, error |-> "Validation",
                                   field |-> first_invalid(a),
                                   value |-> <<>>]]
    ELSE [Idle EXCEPT !.fn = "generate", !.args = a, !.pc = "build"]

\* One tlv_data += build_tlv_field(tag, ...) of generate_zatca_qr, or,
\* after the fifth, the Base64 encoding and the return.
generate_build(fs, c) ==
    IF fs[c].iterations >= 5
    THEN [fs[c] EXCEPT !.pc = "returned",
                       !.outcome = [ok |-> TRUE, error |-> "", field |-> 0,
                                    value |-> b64encode(fs[c].tlv_data)]]
    ELSE IF ~build_tlv_field(fs[c].iterations + 1,
                 field_values(fs[c].args)[fs[c].iterations + 1]).ok
    THEN [fs[c] EXCEPT !.pc = "raised",
                       !.outcome = [ok |-> FALSE, error |-> "FieldTooLarge",
                                    field |-> fs[c].iterations + 1,
                                    value |-> <<>>]]
    ELSE [fs[c] EXCEPT
             !.tlv_data = fs[c].tlv_data
                 \o build_tlv_field(fs[c].iterations + 1,
                        field_values(fs[c].args)[fs[c].iterations + 1]).value,
             !.iterations = fs[c].iterations + 1]

Init ==
    /\ op = "none"
    /\ args = NoArgs
    /\ qr_code = NoQr
    /\ buffer = <<>>
    /\ carried = <<>>
    /\ expected = NoArgs
    /\ decoded = NoDecoded
    /\ verdict = NoVerdict
    /\ field_in = NoField
    /\ tlv = NoTlv
    /\ checked = <<>>
    /\ valid = NoValid
    /\ frames = [c \in Callers |-> Idle]
    /\ collection = <<>>
    /\ next_id = 0
    /\ response = NoResponse

\* qr_code = generate_zatca_qr(...)
Generate(a) ==
    /\ op = "none"
    /\ op' = "generate"
    /\ args' = a
    /\ qr_code' = generate_zatca_qr(a)
    /\ buffer' = <<>>
    /\ carried' = <<>>
    /\ expected' = NoArgs
    /\ decoded' = NoDecoded
    /\ verdict' = NoVerdict
    /\ field_in' = NoField
    /\ tlv' = NoTlv
    /\ UNCHANGED <<checked, valid>>
    /\ UNCHANGED <<frames, collection, next_id, response>>

\* decoded = decode_zatca_qr(qr_code), as the test script does
Decode ==
    /\ op = "generate"
    /\ qr_code.ok
    /\ op' = "decode"
    /\ buffer' = qr_code.value
    /\ carried' = field_values(args)
    /\ decoded' = decode_zatca_qr(qr_code.value)
    /\ expected' = NoArgs
    /\ verdict' = NoVerdict
    /\ UNCHANGED <<args, qr_code, field_in, tlv, checked, valid>>
    /\ UNCHANGED <<frames, collection, next_id, response>>

\* The Base64 text of five well-formed fields carrying `values`: what a
\* generated tag becomes when one of its values is rewritten.
Reframed(values) ==
    b64encode(tlv_layout(1, utf8_encode(values[1]))
              \o tlv_layout(2, utf8_encode(values[2]))
              \o tlv_layout(3, utf8_encode(values[3]))
              \o tlv_layout(4, utf8_encode(values[4]))
              \o tlv_layout(5, utf8_encode(values[5])))

Fits(value) == Len(utf8_encode(value)) <= MaxFieldLen

\* verify_zatca_qr(qr_code, <the arguments it was generated from>)
VerifySame ==
    /\ op = "generate"
    /\ qr_code.ok
    /\ op' = "verify"
    /\ buffer' = qr_code.value
    /\ carried' = field_values(args)
    /\ expected' = args
    /\ verdict' = verify_zatca_qr(qr_code.value, args)
    /\ decoded' = NoDecoded
    /\ UNCHANGED <<args, qr_code, field_in, tlv, checked, valid>>
    /\ UNCHANGED <<frames, collection, next_id, response>>

\* verify_zatca_qr(qr_code, ...) with expected value k replaced by v
VerifyExpected(k, v) ==
    /\ op = "generate"
    /\ qr_code.ok
    /\ v # ArgAt(args, k)
    /\ op' = "verify"
    /\ buffer' = qr_code.value
    /\ carried' = field_values(args)
    /\ expected' = WithArg(args, k, v)
    /\ verdict' = verify_zatca_qr(qr_code.value, WithArg(args, k, v))
    /\ decoded' = NoDecoded
    /\ UNCHANGED <<args, qr_code, field_in, tlv, checked, valid>>
    /\ UNCHANGED <<frames, collection, next_id, response>>

\* verify_zatca_qr(tag, <the original arguments>) where tag is qr_code with
\* the value of field k rewritten to v
VerifyRewritten(k, v) ==
    /\ op = "generate"
    /\ qr_code.ok
    /\ Fits(v)
    /\ v # field_values(args)[k]
    /\ LET values == [field_values(args) EXCEPT ![k] = v]
       IN  /\ buffer' = Reframed(values)
           /\ carried' = values
           /\ verdict' = verify_zatca_qr(buffer', args)
    /\ op' = "verify"
    /\ expected' = args
    /\ decoded' = NoDecoded
    /\ UNCHANGED <<args, qr_code, field_in, tlv, checked, valid>>
    /\ UNCHANGED <<frames, collection, next_id, response>>

\* tlv = build_tlv_field(tag, value)
BuildField(tag, value) ==
    /\ op = "none"
    /\ op' = "build"
    /\ field_in' = [tag |-> tag, value |-> value]
    /\ tlv' = build_tlv_field(tag, value)
    /\ args' = NoArgs
    /\ qr_code' = NoQr
    /\ buffer' = <<>>
    /\ carried' = <<>>
    /\ expected' = NoArgs
    /\ decoded' = NoDecoded
    /\ verdict' = NoVerdict
    /\ UNCHANGED <<checked, valid>>
    /\ UNCHANGED <<frames, collection, next_id, response>>

\* decode_zatca_qr(t) on a text not made by generate_zatca_qr
DecodeCrafted(t) ==
    /\ op = "none"
    /\ op' = "decode_crafted"
    /\ buffer' = t
    /\ decoded' = decode_zatca_qr(t)
    /\ UNCHANGED <<args, qr_code, carried, expected, verdict, field_in, tlv,
                   checked, valid>>
    /\ UNCHANGED <<frames, collection, next_id, response>>

\* verify_zatca_qr(t, e...) on such a text; decoded is the local variable
\* of the call, when its assignment is reached.
VerifyCrafted(t, e) ==
    /\ op = "none"
    /\ op' = "verify_crafted"
    /\ buffer' = t
    /\ expected' = e
    /\ decoded' = decode_zatca_qr(t)
    /\ verdict' = verify_zatca_qr(t, e)
    /\ UNCHANGED <<args, qr_code, carried, field_in, tlv, checked, valid>>
    /\ UNCHANGED <<frames, collection, next_id, response>>

\* The three validators called on one input.
Validate(t) ==
    /\ op = "none"
    /\ op' = "validate"
    /\ checked' = t
    /\ valid' = [vat_number |-> validate_vat_number_call(t),
                 amount |-> validate_amount_call(t),
                 datetime |-> validate_datetime_call(t)]
    /\ UNCHANGED <<args, qr_code, buffer, carried, expected, decoded,
                   verdict, field_in, tlv>>
    /\ UNCHANGED <<frames, collection, next_id, response>>

FieldValues ==
    UNION {Domain(k) : k \in 1..5} \cup {WideName(n) : n \in LongLens}

Next ==
    \/ \E a \in ArgSets : Generate(a)
    \/ Decode
    \/ VerifySame
    \/ \E k \in 1..5 : \E v \in Domain(k) : VerifyExpected(k, v)
    \/ \E k \in 1..5 : \E v \in Domain(k) : VerifyRewritten(k, v)
    \/ \E tag \in 1..5 : \E value \in FieldValues : BuildField(tag, value)
    \/ \E t \in Texts : Validate(t)
    \/ \E t \in Encoded : DecodeCrafted(t)
    \/ \E t \in Encoded : \E e \in ExpectedSets : VerifyCrafted(t, e)

Spec == Init /\ [][Next]_vars

\* ------------------------------------------------------------------------
\* Concurrent callers
\* ------------------------------------------------------------------------
\* Two callers (threads of the web server) each make one call of
\* generate_zatca_qr, decode_zatca_qr or verify_zatca_qr; the steps of the
\* two calls interleave in any order.

callerVars == <<op, args, qr_code, buffer, carried, expected, decoded,
                verdict, field_in, tlv, checked, valid>>

storeVars == <<collection, next_id, response>>

\* Two fields with empty values: the shortest fields there are.
BufEmptyValues == Field(1, <<>>) \o Field(2, <<>>)

CallTexts ==
    {b64encode(BufFive), b64encode(BufRepeated4), b64encode(BufCutValue),
     b64encode(BufTrailingByte), b64encode(BufBadUtf8),
     b64encode(BufEmptyValues), B64NoPad}

CallChecks ==
    {<<b64encode(BufFive), BaseArgs>>,
     <<b64encode(BufFive), WithArg(BaseArgs, 4, Amt0_01)>>,
     <<b64encode(BufReversed), BaseArgs>>,
     <<b64encode(BufCutValue), BaseArgs>>}

CallArgs ==
    {BaseArgs,
     WithArg(BaseArgs, 1, ArabicName),
     WithArg(BaseArgs, 2, Vat14),
     WithArg(BaseArgs, 4, LongAmount(MaxFieldLen + 1))}

\* Caller c enters decode_zatca_qr(t)
CallDecode(c, t) ==
    /\ frames[c].pc = "idle"
    /\ frames' = [frames EXCEPT ![c] = decode_enter("decode", t, NoArgs)]
    /\ UNCHANGED <<callerVars, storeVars>>

\* Caller c enters verify_zatca_qr(t, e...), which enters decode_zatca_qr(t)
CallVerify(c, t, e) ==
    /\ frames[c].pc = "idle"
    /\ frames' = [frames EXCEPT ![c] = decode_enter("verify", t, e)]
    /\ UNCHANGED <<callerVars, storeVars>>

\* Caller c enters generate_zatca_qr(a...)
CallGenerate(c, a) ==
    /\ frames[c].pc = "idle"
    /\ frames' = [frames EXCEPT ![c] = generate_enter(a)]
    /\ UNCHANGED <<callerVars, storeVars>>

\* The call of caller c goes once round the loop of decode_zatca_qr, or
\* leaves it.
Iterate(c) ==
    /\ frames[c].pc = "loop"
    /\ frames' = [frames EXCEPT ![c] = decode_iterate(frames, c)]
    /\ UNCHANGED <<callerVars, storeVars>>

\* The call of caller c builds its next field, or returns.
Build(c) ==
    /\ frames[c].pc = "build"
    /\ frames' = [frames EXCEPT ![c] = generate_build(frames, c)]
    /\ UNCHANGED <<callerVars, storeVars>>

CallNext ==
    \/ \E c \in Callers : \E t \in CallTexts : CallDecode(c, t)
    \/ \E c \in Callers : \E x \in CallChecks : CallVerify(c, x[1], x[2])
    \/ \E c \in Callers : \E a \in CallArgs : CallGenerate(c, a)
    \/ \E c \in Callers : Iterate(c)
    \/ \E c \in Callers : Build(c)

CallSpec == Init /\ [][CallNext]_vars

\* A thread that can run is run in the end: the interpreter switches
\* threads at intervals and the loop body waits for nothing.
FairCallSpec == CallSpec /\ \A c \in Callers : WF_vars(Iterate(c))

\* ------------------------------------------------------------------------
\* Clients of the invoice routes
\* ------------------------------------------------------------------------
\* Requests arrive one after the other, in any order.

\* The most invoices ever inserted in one run.
MaxInvoices == 2

\* What datetime.utcnow() answers.
Clock ==
    {DateTime(2024, 1, 15, 10, 30, 45, 600000),
     DateTime(2024, 1, 15, 10, 30, 46, 0)}

Payload(complete, total_amount, vat_amount) ==
    [complete |-> complete, total_amount |-> total_amount,
     vat_amount |-> vat_amount]

Payloads ==
    {Payload(TRUE, JsonNumber(Finite(100050)), JsonString(Amt150_08)),
     Payload(TRUE, JsonNumber(Float1e300), JsonString(Amt150_08)),
     Payload(TRUE, JsonNull, JsonNull),
     Payload(TRUE, JsonString(AmtAbc), JsonNull),
     Payload(FALSE, JsonNumber(Finite(100050)), JsonNull)}

InvoiceIds == 1..MaxInvoices

\* A request is answered: the route's writes reach the collection and its
\* response reaches the client.
Answered(r) ==
    /\ collection' = r.collection
    /\ next_id' = r.next_id
    /\ response' = r.response

\* POST /api/invoices
CreateInvoice(payload, now) ==
    /\ next_id < MaxInvoices
    /\ LET r == create_invoice(collection, next_id, payload, now)
       IN  Answered(r)
    /\ UNCHANGED <<callerVars, frames>>

\* GET /api/invoices
ListInvoices ==
    /\ LET r == list_invoices(collection, next_id)
       IN  Answered(r)
    /\ UNCHANGED <<callerVars, frames>>

\* GET /api/invoices/<invoice_id>/qr
GetInvoiceQr(invoice_id) ==
    /\ LET r == get_invoice_qr(collection, next_id, invoice_id)
       IN  Answered(r)
    /\ UNCHANGED <<callerVars, frames>>

\* DELETE /api/invoices/<invoice_id>
DeleteInvoice(invoice_id) ==
    /\ LET r == delete_invoice(collection, next_id, invoice_id)
       IN  Answered(r)
    /\ UNCHANGED <<callerVars, frames>>

StoreNext ==
    \/ \E payload \in Payloads : \E now \in Clock : CreateInvoice(payload, now)
    \/ ListInvoices
    \/ \E invoice_id \in InvoiceIds : GetInvoiceQr(invoice_id)
    \/ \E invoice_id \in InvoiceIds : DeleteInvoice(invoice_id)

StoreSpec == Init /\ [][StoreNext]_vars

\* ------------------------------------------------------------------------
\* Vocabulary of the properties
\* ------------------------------------------------------------------------
\* Stated apart from the operators above, which model the code.

\* s with its leading and trailing whitespace removed.
Trimmed(s) ==
    LET lo == CHOOSE i \in 1..(Len(s) + 1) :
                  /\ \A j \in 1..(i - 1) : IsSpace(s[j])
                  /\ i <= Len(s) => ~IsSpace(s[i])
        hi == CHOOSE i \in 0..Len(s) :
                  /\ \A j \in (i + 1)..Len(s) : IsSpace(s[j])
                  /\ i >= 1 => ~IsSpace(s[i])
    IN  IF lo > hi THEN <<>> ELSE SubSeq(s, lo, hi)

\* s without its whitespace and hyphen characters.
WithoutSeparators(s) == SelectSeq(s, LAMBDA c : ~IsSpace(c) /\ c # 45)

\* s without its space (U+0020) and hyphen characters.
WithoutSpacesHyphens(s) == SelectSeq(s, LAMBDA c : c \notin {32, 45})

\* The UTF-8 length of s: 1 to 4 bytes a character.
Utf8Len(s) ==
    Len(s) + Cardinality({i \in 1..Len(s) : s[i] >= 128})
           + Cardinality({i \in 1..Len(s) : s[i] >= 2048})
           + Cardinality({i \in 1..Len(s) : s[i] >= 65536})

\* The five values a tag made from arguments a is to carry.
Normalized(a) ==
    <<Trimmed(a.seller_name), WithoutSeparators(a.vat_number),
      a.invoice_datetime, a.total_amount, a.vat_amount>>

\* Argument k of a passes its validator.
Passes(a, k) ==
    IF k = 1 THEN Trimmed(a.seller_name) # <<>>
    ELSE IF k = 2 THEN validate_vat_number(a.vat_number)
    ELSE IF k = 3 THEN validate_datetime(a.invoice_datetime)
    ELSE IF k = 4 THEN validate_amount(a.total_amount)
    ELSE validate_amount(a.vat_amount)

AllPass(a) == \A k \in 1..5 : Passes(a, k)

AllFit(a) == \A k \in 1..5 : Utf8Len(Normalized(a)[k]) <= MaxFieldLen

\* The mapping {1: v1, ..., 5: v5} as a set of items.
MappingOf(values) == {[tag |-> k, value |-> values[k]] : k \in 1..5}

Items(d) == {d[i] : i \in 1..Len(d)}

ByteAt(b, i) == IF i \in 1..Len(b) THEN b[i] ELSE -1

\* The bytes a tag frames.
Unframed(text) == b64decode(text).value

\* Reading b as consecutive TLV fields: the offset (0-based) of field k.
RECURSIVE FieldStart(_, _)
FieldStart(b, k) ==
    IF k = 1 THEN 0
    ELSE FieldStart(b, k - 1) + 2 + ByteAt(b, FieldStart(b, k - 1) + 2)

\* b is exactly five fields, tagged 1, 2, 3, 4, 5 in that order.
IsFiveFields(b) ==
    /\ \A k \in 1..5 :
          /\ ByteAt(b, FieldStart(b, k) + 1) = k
          /\ ByteAt(b, FieldStart(b, k) + 2) >= 0
    /\ FieldStart(b, 6) = Len(b)

\* The value bytes of field k of such a b.
FieldBytes(b, k) ==
    SubSeq(b, FieldStart(b, k) + 3,
           FieldStart(b, k) + 2 + ByteAt(b, FieldStart(b, k) + 2))

\* ------------------------------------------------------------------------
\* Properties
\* ------------------------------------------------------------------------

\* C1 (as stated): whenever the five inputs pass their validators,
\* decode(encode(...)) is the mapping {1: trimmed name, 2: identifier without
\* separators, 3: timestamp, 4: total, 5: vat} and nothing else.
C1_RoundTripOfEveryValidInput ==
    (op = "generate" /\ AllPass(args)) =>
        /\ qr_code.ok
        /\ decode_zatca_qr(qr_code.value).ok
        /\ Len(decode_zatca_qr(qr_code.value).value) = 5
        /\ Items(decode_zatca_qr(qr_code.value).value)
              = MappingOf(Normalized(args))

\* C1 (amended): whenever the five inputs pass their validators and each of
\* the five normalized values is at most 255 UTF-8 bytes long, encode
\* succeeds and decode of its tag is exactly that mapping.
C1_RoundTrip ==
    /\ (op = "generate" /\ AllPass(args) /\ AllFit(args)) => qr_code.ok
    /\ op = "decode" =>
          /\ decoded.ok
          /\ Len(decoded.value) = 5
          /\ Items(decoded.value) = MappingOf(Normalized(args))

C1_Witness ==
    /\ op = "decode"
    /\ args.seller_name = AcmePadded
    /\ args.vat_number = VatHyphens
    /\ decoded.ok

\* C2: verifying a generated tag against the very arguments it was
\* generated from gives (True, []).
C2_VerifyOfOwnArguments ==
    (op = "verify" /\ buffer = qr_code.value /\ expected = args) =>
        verdict = [is_valid |-> TRUE, errors |-> <<>>]

C2_Witness ==
    /\ op = "verify"
    /\ buffer = qr_code.value
    /\ expected = args
    /\ args.seller_name = AcmePadded
    /\ args.vat_number = VatSpaces
    /\ verdict.is_valid

\* Field k of the verified tag differs from what is expected of it.
Differs(k) == Normalized(expected)[k] # carried[k]

\* C3: when exactly one of the five values differs between the tag and the
\* normalized expected values, verify answers False with exactly one
\* entry, a mismatch naming that tag.
C3_SingleChangeDetected ==
    op = "verify" =>
        \A k \in 1..5 :
            (Differs(k) /\ \A j \in (1..5) \ {k} : ~Differs(j)) =>
                /\ ~verdict.is_valid
                /\ Len(verdict.errors) = 1
                /\ verdict.errors[1].kind = "mismatch"
                /\ verdict.errors[1].tag = k

C3_Witness ==
    /\ op = "verify"
    /\ buffer # qr_code.value
    /\ Differs(4)
    /\ \A j \in {1, 2, 3, 5} : ~Differs(j)
    /\ Len(verdict.errors) = 1

\* C4: the bytes framed by every generated tag are exactly five TLV
\* fields, tagged 1, 2, 3, 4, 5 in that order.
C4_FiveFieldsInOrder ==
    (op = "generate" /\ qr_code.ok) =>
        /\ b64decode(qr_code.value).ok
        /\ IsFiveFields(Unframed(qr_code.value))

C4_Witness ==
    /\ op = "generate"
    /\ qr_code.ok
    /\ args.seller_name = ArabicName
    /\ args.vat_number = VatArabicIndic

\* C5: for a value of at most 255 UTF-8 bytes build_tlv_field returns
\* 2 + L bytes: the tag, L, then the L bytes of the value in UTF-8.
C5_FieldLayout ==
    (op = "build" /\ Utf8Len(field_in.value) <= MaxFieldLen) =>
        /\ tlv.ok
        /\ Len(tlv.value) = 2 + Utf8Len(field_in.value)
        /\ tlv.value[1] = field_in.tag
        /\ tlv.value[2] = Utf8Len(field_in.value)
        /\ utf8_decode(SubSeq(tlv.value, 3, Len(tlv.value)))
              = [ok |-> TRUE, value |-> field_in.value]

C5_Witness ==
    /\ op = "build"
    /\ tlv.ok
    /\ Utf8Len(field_in.value) = MaxFieldLen
    /\ Len(field_in.value) < MaxFieldLen

\* C6: build_tlv_field fails if and only if the value is longer than 255
\* UTF-8 bytes, and then with the too-large error.
C6_TooLargeIffOver255 ==
    op = "build" =>
        /\ ~tlv.ok <=> Utf8Len(field_in.value) > MaxFieldLen
        /\ ~tlv.ok => tlv.error = "FieldTooLarge"

C6_Witness ==
    /\ op = "build"
    /\ ~tlv.ok
    /\ Utf8Len(field_in.value) = MaxFieldLen + 1
    /\ Len(field_in.value) <= MaxFieldLen

\* C7: when some input is invalid, encode fails with the validation error
\* of the first invalid one in the order seller name, identifier,
\* timestamp, total, vat, and returns no tag.
C7_FirstInvalidReported ==
    (op = "generate" /\ ~AllPass(args)) =>
        /\ ~qr_code.ok
        /\ qr_code.error = "Validation"
        /\ qr_code.field = SetMin({k \in 1..5 : ~Passes(args, k)})
        /\ qr_code.value = <<>>

C7_Witness ==
    /\ op = "generate"
    /\ ~Passes(args, 3)
    /\ ~Passes(args, 4)
    /\ qr_code.field = 3

\* C8: when all inputs are valid and a field value is longer than 255
\* bytes, encode fails with the too-large error and returns no tag; a tag
\* that is returned carries every value whole, under its true length.
C8_TooLargeNeverEmitted ==
    op = "generate" =>
        /\ (AllPass(args) /\ ~AllFit(args)) =>
              /\ ~qr_code.ok
              /\ qr_code.error = "FieldTooLarge"
              /\ qr_code.field =
                    SetMin({k \in 1..5 :
                               Utf8Len(Normalized(args)[k]) > MaxFieldLen})
              /\ qr_code.value = <<>>
        /\ qr_code.ok =>
              /\ AllFit(args)
              /\ IsFiveFields(Unframed(qr_code.value))
              /\ \A k \in 1..5 :
                    ByteAt(Unframed(qr_code.value),
                           FieldStart(Unframed(qr_code.value), k) + 2)
                       = Utf8Len(Normalized(args)[k])

C8_Witness ==
    /\ op = "generate"
    /\ AllPass(args)
    /\ ~qr_code.ok
    /\ qr_code.error = "FieldTooLarge"

\* C9: a seller name that is empty or all whitespace is rejected, and the
\* value of tag 1 of a generated tag is the name trimmed.
C9_SellerNameTrimmed ==
    op = "generate" =>
        /\ Trimmed(args.seller_name) = <<>> =>
              /\ ~qr_code.ok
              /\ qr_code.error = "Validation"
              /\ qr_code.field = 1
        /\ qr_code.ok =>
              /\ IsFiveFields(Unframed(qr_code.value))
              /\ utf8_decode(FieldBytes(Unframed(qr_code.value), 1))
                    = [ok |-> TRUE, value |-> Trimmed(args.seller_name)]

C9_Witness ==
    /\ op = "generate"
    /\ qr_code.ok
    /\ args.seller_name = AcmePadded
    /\ Trimmed(args.seller_name) # args.seller_name

\* The text of tag 2 of a generated tag.
Tag2Of(q) == utf8_decode(FieldBytes(Unframed(q.value), 2)).value

\* C10: identifiers that differ only by spaces and hyphens validate alike
\* and, when valid, give the same tag-2 field: the 15 digits alone.
C10_SeparatorsIgnored ==
    op = "generate" =>
        \A other \in VatNumbers :
            WithoutSpacesHyphens(other) = WithoutSpacesHyphens(args.vat_number)
            => /\ validate_vat_number(other)
                     = validate_vat_number(args.vat_number)
               /\ qr_code.ok =>
                     /\ generate_zatca_qr(WithArg(args, 2, other)).ok
                     /\ Tag2Of(generate_zatca_qr(WithArg(args, 2, other)))
                           = Tag2Of(qr_code)
                     /\ Len(Tag2Of(qr_code)) = VatDigits
                     /\ \A i \in 1..Len(Tag2Of(qr_code)) :
                           IsDigitChar(Tag2Of(qr_code)[i])

C10_Witness ==
    /\ op = "generate"
    /\ qr_code.ok
    /\ args.vat_number = VatHyphens
    /\ Tag2Of(qr_code) = Vat15

\* An identifier as the specification has it: 15 ASCII digits once
\* whitespace and hyphens are removed.
IsFifteenAsciiDigits(t) ==
    /\ Len(WithoutSeparators(t)) = VatDigits
    /\ \A i \in 1..Len(WithoutSeparators(t)) :
          IsAsciiDigit(WithoutSeparators(t)[i])

\* C11: validate_vat_number(text) is True if and only if the text without
\* whitespace and hyphens is exactly 15 ASCII digits.
C11_FifteenAsciiDigits ==
    (op = "validate" /\ checked # None) =>
        (valid.vat_number.value <=> IsFifteenAsciiDigits(checked))

\* An amount as the specification has it: ASCII digits, a point, two ASCII
\* digits, with an optional minus sign in front.
IsTwoDecimalAmount(t) ==
    LET u == IF t # <<>> /\ t[1] = 45 THEN SubSeq(t, 2, Len(t)) ELSE t
    IN  /\ Len(u) >= 4
        /\ u[Len(u) - 2] = 46
        /\ \A i \in (1..Len(u)) \ {Len(u) - 2} : IsAsciiDigit(u[i])

\* C12: validate_amount(text) is True only for a finite decimal with
\* exactly two fraction digits.
C12_TwoFractionDigits ==
    (op = "validate" /\ checked # None /\ valid.amount.value) =>
        IsTwoDecimalAmount(checked)

\* A timestamp as the specification has it: exactly YYYY-MM-DDTHH:MM:SS in
\* ASCII digits, a date of the calendar and a time of the day.
IsPlainTimestamp(t) ==
    /\ Len(t) = PatternLen
    /\ \A i \in 1..PatternLen :
          IF i \in {5, 8} THEN t[i] = 45
          ELSE IF i = 11 THEN t[i] = 84
          ELSE IF i \in {14, 17} THEN t[i] = 58
          ELSE IsAsciiDigit(t[i])
    /\ Num4(t, 1) >= 1
    /\ Num2(t, 6) \in 1..12
    /\ Num2(t, 9) \in 1..DaysInMonth(Num4(t, 1), Num2(t, 6))
    /\ Num2(t, 12) < 24 /\ Num2(t, 15) < 60 /\ Num2(t, 18) < 60

\* C13: validate_datetime(text) is True if and only if the text is exactly
\* YYYY-MM-DDTHH:MM:SS, with no suffix, and a valid date and time.
C13_ExactTimestampForm ==
    (op = "validate" /\ checked # None) =>
        (valid.datetime.value <=> IsPlainTimestamp(checked))

\* C14: each of the three validators returns a boolean on every text and
\* on None, no exception leaves it, and it returns False on an empty text
\* and on None.
C14_ValidatorsNeverRaise ==
    op = "validate" =>
        \A v \in {valid.vat_number, valid.amount, valid.datetime} :
            /\ v.raised = ""
            /\ v.value \in BOOLEAN
            /\ checked \in {None, <<>>} => v.value = FALSE

C14_Witness ==
    /\ op = "validate"
    /\ checked = None
    /\ valid = NoValid

\* --- Buffers as the specification reads them ---

\* Reading b as consecutive TLV fields from offset off (0-based): the whole
\* fields met, each with its tag and value bytes.
RECURSIVE FieldsOf(_, _)
FieldsOf(b, off) ==
    IF off + 2 <= Len(b) /\ off + 2 + b[off + 2] <= Len(b)
    THEN <<[tag |-> b[off + 1],
            bytes |-> SubSeq(b, off + 3, off + 2 + b[off + 2])]>>
         \o FieldsOf(b, off + 2 + b[off + 2])
    ELSE <<>>

\* The bytes the whole fields of b take.
RECURSIVE WholeLen(_, _)
WholeLen(fields, k) ==
    IF k > Len(fields) THEN 0
    ELSE 2 + Len(fields[k].bytes) + WholeLen(fields, k + 1)

\* b ends inside a field: in its header, or in its value.
IsTruncated(b) == WholeLen(FieldsOf(b, 0), 1) < Len(b)

\* b is whole fields end to end, each value valid UTF-8.
IsWellFormed(b) ==
    /\ WholeLen(FieldsOf(b, 0), 1) = Len(b)
    /\ \A k \in 1..Len(FieldsOf(b, 0)) :
          utf8_decode(FieldsOf(b, 0)[k].bytes).ok

\* The (tag, value) pairs of the fields of a well-formed b.
PairsOf(b) ==
    [k \in 1..Len(FieldsOf(b, 0)) |->
        [tag |-> FieldsOf(b, 0)[k].tag,
         value |-> utf8_decode(FieldsOf(b, 0)[k].bytes).value]]

\* t is Base64 as RFC 4648 has it: groups of four characters of the
\* alphabet, the last group ending in at most two '='.
IsValidBase64(t) ==
    /\ Len(t) % 4 = 0
    /\ \A i \in 1..Len(t) :
          \/ IsB64Char(t[i])
          \/ /\ t[i] = PadChar
             /\ i >= Len(t) - 1
             /\ \A j \in (i + 1)..Len(t) : t[j] = PadChar

\* C15: on a buffer that ends inside a field (one byte left where a header
\* is due, or a declared length longer than what is left) decode_zatca_qr
\* raises its ValueError and returns no mapping.
C15_TruncatedBufferRejected ==
    (/\ op \in {"decode_crafted", "verify_crafted"}
     /\ b64decode(buffer).ok
     /\ IsTruncated(Unframed(buffer))) =>
        /\ ~decoded.ok
        /\ decoded.error = "DecodeFailed"
        /\ "value" \notin DOMAIN decoded
        /\ (\A k \in 1..Len(FieldsOf(Unframed(buffer), 0)) :
               utf8_decode(FieldsOf(Unframed(buffer), 0)[k].bytes).ok)
           => decoded.cause =
                 IF Len(Unframed(buffer))
                       - WholeLen(FieldsOf(Unframed(buffer), 0), 1) = 1
                 THEN "IncompleteField" ELSE "IncompleteValue"

C15_Witness ==
    /\ op = "decode_crafted"
    /\ buffer = b64encode(BufCutValue)
    /\ ~decoded.ok
    /\ decoded.cause = "IncompleteValue"

\* C16: decode_zatca_qr fails on every text that is not valid Base64.
C16_InvalidBase64Rejected ==
    (op = "decode_crafted" /\ ~IsValidBase64(buffer)) => ~decoded.ok

\* C17: on a well-formed buffer decode_zatca_qr succeeds and returns every
\* (tag, value) pair of the buffer, repeated tags and tags outside 1..5
\* included.
C17_EveryPairReturned ==
    (/\ op = "decode_crafted"
     /\ b64decode(buffer).ok
     /\ IsWellFormed(Unframed(buffer))) =>
        /\ decoded.ok
        /\ Len(decoded.value) = Len(PairsOf(Unframed(buffer)))
        /\ \A k \in 1..Len(PairsOf(Unframed(buffer))) :
              PairsOf(Unframed(buffer))[k] \in Items(decoded.value)

\* C18: verify_zatca_qr always returns a (boolean, list) pair, and when
\* decoding fails it is False with exactly one entry, the decoding error.
C18_VerifyNeverRaises ==
    op \in {"verify", "verify_crafted"} =>
        /\ DOMAIN verdict = {"is_valid", "errors"}
        /\ verdict.is_valid \in BOOLEAN
        /\ DOMAIN verdict.errors = 1..Len(verdict.errors)
        /\ (op = "verify_crafted" /\ ~decoded.ok) =>
              /\ ~verdict.is_valid
              /\ Len(verdict.errors) = 1
              /\ verdict.errors[1].kind = "decoding"

C18_Witness ==
    /\ op = "verify_crafted"
    /\ buffer = B64NoPad
    /\ ~decoded.ok
    /\ Len(verdict.errors) = 1

\* The values a mapping holds under tag k: none, or one.
ValuesOf(d, k) == {x.value : x \in {y \in Items(d) : y.tag = k}}

\* What verify_zatca_qr is to report on mapping d against expected values
\* e: the tags 1..5 that differ, in order, then the tags outside 1..5.
DueEntries(d, e) ==
    LET differ == SelectSeq(<<1, 2, 3, 4, 5>>,
                            LAMBDA k : ValuesOf(d, k) # {Normalized(e)[k]})
        extra  == SelectSeq([i \in 1..Len(d) |-> d[i].tag],
                            LAMBDA t : t \notin 1..5)
    IN  [i \in 1..Len(differ) |-> <<"mismatch", differ[i]>>]
        \o [i \in 1..Len(extra) |-> <<"unexpected", extra[i]>>]

\* C19: when decoding succeeds the list of verify_zatca_qr has exactly one
\* entry per tag 1..5 that differs from its expected value, in tag order,
\* then one per decoded tag outside 1..5; is_valid is True if and only if
\* the list is empty.
C19_EveryMismatchListed ==
    (op = "verify_crafted" /\ decoded.ok) =>
        /\ [i \in 1..Len(verdict.errors) |->
               <<verdict.errors[i].kind, verdict.errors[i].tag>>]
              = DueEntries(decoded.value, expected)
        /\ verdict.is_valid <=> verdict.errors = <<>>

C19_Witness ==
    /\ op = "verify_crafted"
    /\ buffer = b64encode(BufExtras)
    /\ decoded.ok
    /\ Len(verdict.errors) = 7

\* C20: on a well-formed buffer holding a field whose tag is outside 1..5,
\* decode_zatca_qr succeeds with that tag in its mapping and
\* verify_zatca_qr answers False with an entry for that tag, whatever the
\* five expected fields.
C20_UnexpectedTagReported ==
    (/\ op = "verify_crafted"
     /\ b64decode(buffer).ok
     /\ IsWellFormed(Unframed(buffer))) =>
        \A k \in 1..Len(PairsOf(Unframed(buffer))) :
            PairsOf(Unframed(buffer))[k].tag \notin 1..5 =>
                /\ decoded.ok
                /\ \E x \in Items(decoded.value) :
                      x.tag = PairsOf(Unframed(buffer))[k].tag
                /\ ~verdict.is_valid
                /\ \E i \in 1..Len(verdict.errors) :
                      /\ verdict.errors[i].kind = "unexpected"
                      /\ verdict.errors[i].tag
                            = PairsOf(Unframed(buffer))[k].tag

C20_Witness ==
    /\ op = "verify_crafted"
    /\ buffer = b64encode(BufExtra6)
    /\ expected = BaseArgs
    /\ decoded.ok
    /\ Len(verdict.errors) = 1
    /\ verdict.errors[1].kind = "unexpected"
    /\ verdict.errors[1].tag = 6

\* C21: verify_zatca_qr prepares its expected values as generate_zatca_qr
\* prepares its arguments.  On a generated tag, expected values that differ
\* from the arguments only by whitespace around the seller name and by
\* spaces and hyphens in the VAT number give (True, []); an expected
\* timestamp, total or VAT amount that differs in any character from the
\* argument gives False with a mismatch entry for its tag.
C21_ExpectedNormalizedAsEncoded ==
    (/\ op = "verify"
     /\ qr_code.ok
     /\ buffer = qr_code.value) =>
        /\ (/\ Trimmed(expected.seller_name) = Trimmed(args.seller_name)
            /\ WithoutSpacesHyphens(expected.vat_number)
                  = WithoutSpacesHyphens(args.vat_number)
            /\ expected.invoice_datetime = args.invoice_datetime
            /\ expected.total_amount = args.total_amount
            /\ expected.vat_amount = args.vat_amount) =>
               /\ verdict.is_valid
               /\ verdict.errors = <<>>
        /\ \A k \in 3..5 :
              ArgAt(expected, k) # ArgAt(args, k) =>
                 /\ ~verdict.is_valid
                 /\ \E i \in 1..Len(verdict.errors) :
                       /\ verdict.errors[i].kind = "mismatch"
                       /\ verdict.errors[i].tag = k
                       /\ verdict.errors[i].expected = ArgAt(expected, k)
                       /\ verdict.errors[i].got = <<ArgAt(args, k)>>

C21_Witness ==
    /\ op = "verify"
    /\ qr_code.ok
    /\ buffer = qr_code.value
    /\ args.vat_number = Vat15
    /\ expected.vat_number = VatHyphens
    /\ expected.seller_name = args.seller_name
    /\ verdict.is_valid

\* C28: the five checks of generate_zatca_qr come before any field is
\* built.  When one argument would make a field longer than 255 bytes and
\* another argument is rejected by its check, the error raised is the
\* validation error of a rejected argument, never the too-large error,
\* whichever of the two comes first in tag order.
C28_ValidationBeforeBuilding ==
    (/\ op = "generate"
     /\ \E k \in 1..5 : \E j \in (1..5) \ {k} :
           /\ Utf8Len(Normalized(args)[k]) > MaxFieldLen
           /\ ~Passes(args, j)) =>
        /\ ~qr_code.ok
        /\ qr_code.error = "Validation"
        /\ ~Passes(args, qr_code.field)
        /\ qr_code.value = <<>>

C28_Witness ==
    /\ op = "generate"
    /\ Utf8Len(Normalized(args)[1]) > MaxFieldLen
    /\ Passes(args, 1)
    /\ ~Passes(args, 5)
    /\ qr_code.error = "Validation"
    /\ qr_code.field = 5

\* The value of the last field of pairs that has tag k.
LastValue(pairs, k) ==
    pairs[SetMax({i \in 1..Len(pairs) : pairs[i].tag = k})].value

\* C25: the mapping decode_zatca_qr returns has one value per tag: its keys
\* are the tags met in the buffer, each once, and the value under a tag is
\* that of the last field of the buffer with that tag; with a repeated tag
\* the mapping has fewer keys than the buffer has fields.
C25_LastValuePerTag ==
    (/\ op = "decode_crafted"
     /\ decoded.ok) =>
        /\ \A i, j \in 1..Len(decoded.value) :
              decoded.value[i].tag = decoded.value[j].tag => i = j
        /\ {x.tag : x \in Items(decoded.value)}
              = {PairsOf(Unframed(buffer))[k].tag :
                    k \in 1..Len(PairsOf(Unframed(buffer)))}
        /\ \A x \in Items(decoded.value) :
              x.value = LastValue(PairsOf(Unframed(buffer)), x.tag)
        /\ Len(decoded.value) <= Len(PairsOf(Unframed(buffer)))

C25_Witness ==
    /\ op = "decode_crafted"
    /\ buffer = b64encode(BufRepeated4)
    /\ decoded.ok
    /\ Len(PairsOf(Unframed(buffer))) = 6
    /\ Len(decoded.value) = 5
    /\ dict_get(decoded.value, 4) = <<Amt0_01>>

\* C26: verify_zatca_qr looks only at the value each of the tags 1..5 ends
\* up with.  For a well-formed buffer whose tags are exactly 1..5 and whose
\* last field of each tag carries the expected value (seller name trimmed,
\* VAT number without separators), the verdict is (True, []) whatever the
\* order of the fields and however often a tag is repeated.
C26_OrderAndRepetitionIgnored ==
    (/\ op = "verify_crafted"
     /\ b64decode(buffer).ok
     /\ IsWellFormed(Unframed(buffer))
     /\ {PairsOf(Unframed(buffer))[k].tag :
            k \in 1..Len(PairsOf(Unframed(buffer)))} = 1..5
     /\ \A k \in 1..5 :
           LastValue(PairsOf(Unframed(buffer)), k) = Normalized(expected)[k])
        =>
        /\ verdict.is_valid
        /\ verdict.errors = <<>>

C26_Witness ==
    /\ op = "verify_crafted"
    /\ buffer = b64encode(BufRepeated1)
    /\ expected = BaseArgs
    /\ Len(PairsOf(Unframed(buffer))) = 6
    /\ PairsOf(Unframed(buffer))[1].value # BaseArgs.seller_name
    /\ verdict.is_valid

\* --- Calls in progress, as the specification reads them ---

\* What the call of frame f returns or raises when it is the only call
\* made: the function applied to the call's arguments.
Alone(f) ==
    IF f.fn = "decode" THEN decode_zatca_qr(f.base64_string)
    ELSE IF f.fn = "verify" THEN verify_zatca_qr(f.base64_string, f.args)
    ELSE generate_zatca_qr(f.args)

\* What the call of frame f returns or raises when it runs on from f with
\* no other call in progress.
Completed(f) ==
    IF f.pc = "loop"
    THEN IF parse_tlv(f.tlv_data, f.offset, f.result).ok
         THEN frame_return(
                  [f EXCEPT !.result =
                       parse_tlv(f.tlv_data, f.offset, f.result).value]
              ).outcome
         ELSE frame_raise(
                  f, parse_tlv(f.tlv_data, f.offset, f.result).error
              ).outcome
    ELSE IF f.pc = "build"
    THEN IF build_fields(field_values(f.args), f.iterations + 1,
                         f.tlv_data).ok
         THEN [ok |-> TRUE, error |-> "", field |-> 0,
               value |-> b64encode(
                   build_fields(field_values(f.args), f.iterations + 1,
                                f.tlv_data).value)]
         ELSE [ok |-> FALSE, error |-> "FieldTooLarge",
               field |-> build_fields(field_values(f.args),
                                      f.iterations + 1, f.tlv_data).tag,
               value |-> <<>>]
    ELSE f.outcome

Finished(f) == f.pc \in {"returned", "raised"}

\* C22: generate_zatca_qr, decode_zatca_qr and verify_zatca_qr keep nothing
\* between calls and share nothing during them.  With the steps of two
\* calls interleaved in any order, each call, from wherever it stands, ends
\* as the same call made alone ends; two finished calls of the same
\* function on equal arguments have equal results.
C22_CallsIndependent ==
    /\ \A c \in Callers :
          frames[c].pc # "idle" => Completed(frames[c]) = Alone(frames[c])
    /\ \A c, d \in Callers :
          (/\ Finished(frames[c])
           /\ Finished(frames[d])
           /\ frames[c].fn = frames[d].fn
           /\ frames[c].base64_string = frames[d].base64_string
           /\ frames[c].args = frames[d].args) =>
              /\ frames[c].pc = frames[d].pc
              /\ frames[c].outcome = frames[d].outcome

C22_Witness ==
    /\ frames[1].pc = "loop"
    /\ frames[2].pc = "loop"
    /\ frames[1].iterations >= 2
    /\ frames[2].iterations >= 2
    /\ frames[1].base64_string # frames[2].base64_string
    /\ frames[1].result # frames[2].result

\* The fields the loop of frame f has parsed so far.
Parsed(f) == SubSeq(FieldsOf(f.tlv_data, 0), 1, f.iterations)

\* The decode_zatca_qr call of frame f returned its mapping.
Succeeded(f) ==
    /\ f.pc = "returned"
    /\ f.fn = "verify" =>
          \A i \in 1..Len(f.outcome.errors) :
              f.outcome.errors[i].kind # "decoding"

\* C24: in decode_zatca_qr the cursor is 0 before the first field, is at
\* every moment the sum of (2 + length) over the fields parsed so far, and
\* never passes the end of the buffer; when the mapping is returned the
\* cursor is the length of the buffer and the fields parsed are all the
\* fields of the buffer: no byte is left over and none is read twice.
C24_CursorEndsAtLength ==
    \A c \in Callers :
        frames[c].fn \in {"decode", "verify"} =>
            /\ frames[c].offset \in 0..Len(frames[c].tlv_data)
            /\ frames[c].iterations <= Len(FieldsOf(frames[c].tlv_data, 0))
            /\ frames[c].offset = WholeLen(Parsed(frames[c]), 1)
            /\ Succeeded(frames[c]) =>
                  /\ frames[c].offset = Len(frames[c].tlv_data)
                  /\ Parsed(frames[c]) = FieldsOf(frames[c].tlv_data, 0)

C24_Witness ==
    /\ frames[1].fn = "decode"
    /\ frames[1].pc = "returned"
    /\ frames[1].base64_string = b64encode(BufRepeated4)
    /\ frames[1].iterations = 6
    /\ frames[1].offset = Len(BufRepeated4)

\* C27: decode_zatca_qr ends on every input.  A loop body that does not
\* raise moves the cursor forward by at least 2 bytes; the bodies run
\* never number more than half the bytes of the buffer; and every call in
\* the loop comes to return or raise.
C27_DecodeTerminates ==
    /\ [][\A c \in Callers :
             (frames[c].pc = "loop" /\ frames'[c] # frames[c]) =>
                \/ Finished(frames'[c])
                \/ /\ frames'[c].pc = "loop"
                   /\ frames'[c].offset >= frames[c].offset + 2
                   /\ frames'[c].iterations = frames[c].iterations + 1]_vars
    /\ [](\A c \in Callers :
             2 * frames[c].iterations <= Len(frames[c].tlv_data)
             \/ frames[c].fn = "generate")
    /\ \A c \in Callers :
          (frames[c].pc = "loop") ~> Finished(frames[c])

C27_Witness ==
    /\ frames[2].fn = "decode"
    /\ frames[2].pc = "returned"
    /\ frames[2].tlv_data = BufEmptyValues
    /\ 2 * frames[2].iterations = Len(frames[2].tlv_data)

\* --- The invoice routes, as the specification reads them ---

\* The invoice `id` is stored with a tag.
HasStoredQr(coll, id) == has_id(coll, id) /\ Truthy(find_one(coll, id).qr_code)

\* An amount whose two-decimal text does not fit a TLV field: the one way
\* generate_zatca_qr fails on what create_invoice gives it.
TooLongToEncode(amount) == Utf8Len(format_amount(amount)) > MaxFieldLen

\* C23: a tag stored by create_invoice stays as it is.  Whatever request
\* comes next (create_invoice, list_invoices, get_invoice_qr,
\* delete_invoice), an invoice stored with a qr_code either is still there
\* with the same qr_code, or is gone because that request was a successful
\* delete_invoice of that very invoice.
C23_StoredTagNeverMutated ==
    [][\A id \in InvoiceIds :
          HasStoredQr(collection, id) =>
              IF has_id(collection', id)
              THEN find_one(collection', id).qr_code
                      = find_one(collection, id).qr_code
              ELSE /\ response'.route = "delete"
                   /\ response'.status = 200
                   /\ response'.id = id]_vars

C23_Witness ==
    /\ Len(collection) = 2
    /\ HasStoredQr(collection, 1)
    /\ HasStoredQr(collection, 2)
    /\ find_one(collection, 1).qr_code # find_one(collection, 2).qr_code
    /\ response.route = "list"

\* C29: a create_invoice request that passes the checks of its payload
\* ends with status 201 and the invoice in the collection, whether or not
\* the tag could be made.  When generate_zatca_qr fails, the invoice is
\* stored without a qr_code and the response carries qr_code = null.
C29_QrFailureKeepsInvoice ==
    (response.route = "create" /\ response.status # 400) =>
        /\ response.status = 201
        /\ response.id = next_id
        /\ has_id(collection, response.id)
        /\ response.body = find_one(collection, response.id)
        /\ (\/ TooLongToEncode(response.body.total)
            \/ TooLongToEncode(response.body.vat_amount)) =>
               /\ find_one(collection, response.id).qr_code = None
               /\ response.body.qr_code = None

C29_Witness ==
    /\ response.route = "create"
    /\ response.status = 201
    /\ response.body.total = Float1e300
    /\ response.body.qr_code = None
    /\ has_id(collection, response.id)
    /\ find_one(collection, response.id).qr_code = None

\* C30: for an invoice stored with a tag, get_invoice_qr answers 200 with
\* a tag, made anew from the stored created_at, total and vat_amount,
\* that equals the stored one; list_invoices lists every invoice of the
\* collection and gives each invoice stored with a tag that stored tag.
C30_RegeneratedEqualsStored ==
    /\ (response.route = "get" /\ HasStoredQr(collection, response.id)) =>
          /\ response.status = 200
          /\ response.body.qr_code
                = find_one(collection, response.id).qr_code
    /\ response.route = "list" =>
          /\ Len(response.body) = Len(collection)
          /\ \A i \in 1..Len(response.body) :
                /\ has_id(collection, response.body[i].id)
                /\ HasStoredQr(collection, response.body[i].id) =>
                      response.body[i].qr_code
                         = find_one(collection, response.body[i].id).qr_code

C30_Witness ==
    /\ response.route = "get"
    /\ response.status = 200
    /\ HasStoredQr(collection, response.id)
    /\ Len(find_one(collection, response.id).created_at) > PatternLen
    /\ response.body.qr_code = find_one(collection, response.id).qr_code

=============================================================================
